---------------------------- MODULE Spec2Model ----------------------------
(***************************************************************************)
(* Order-resolution pipeline of the drink-order backend:                   *)
(*   production_entity_extractor.py  (Entity Normalizer)                   *)
(*   product_variations.py           (Alias Resolver tables)               *)
(*   fuzzy_matcher.py                (Product Matcher)                     *)
(*   order_builder.py                (Order Composer)                      *)
(*   api_pipeline.py                 (process_text / process_audio)        *)
(*                                                                         *)
(* Python values are tagged records [t, s, n, l] so that None, strings,    *)
(* numbers and lists stay distinct: t is the type tag, s a string, n a     *)
(* number (floats are kept in thousandths: 5.50 is 5500, 0.4 is 400) and   *)
(* l a list of such values.  Dicts are functions from key strings to       *)
(* values; a key that is absent is not in the DOMAIN.                      *)
(***************************************************************************)
EXTENDS Integers, Sequences, FiniteSets, TLC

----------------------------------------------------------------------------
(* Python values *)

PyNone == [t |-> "none", s |-> "", n |-> 0, l |-> <<>>]

PStr(x) == [t |-> "str", s |-> x, n |-> 0, l |-> <<>>]

PInt(k) == [t |-> "int", s |-> "", n |-> k, l |-> <<>>]

PFloat(m) == [t |-> "float", s |-> "", n |-> m, l |-> <<>>]

PList(q) == [t |-> "list", s |-> "", n |-> 0, l |-> q]

\* the list of strings q as a Python list
StrList(q) == PList([i \in 1..Len(q) |-> PStr(q[i])])

\* bool(v)
Truthy(v) ==
    CASE v.t = "none" -> FALSE
      [] v.t = "str" -> v.s # ""
      [] v.t = "int" -> v.n # 0
      [] v.t = "float" -> v.n # 0
      [] v.t = "list" -> v.l # <<>>
      [] OTHER -> TRUE

\* a or b
Or(a, b) == IF Truthy(a) THEN a ELSE b

\* d.get(k, default)
GetD(d, k, default) == IF k \in DOMAIN d THEN d[k] ELSE default

\* d.get(k)
Get(d, k) == GetD(d, k, PyNone)

\* a == b on values of the model (an int equals the float of the same value)
IsNum(v) == v.t \in {"int", "float"}

NumVal(v) == IF v.t = "int" THEN v.n * 1000 ELSE v.n

PyEq(a, b) ==
    IF IsNum(a) /\ IsNum(b) THEN NumVal(a) = NumVal(b)
    ELSE a.t = b.t /\ a = b

\* isinstance(v, list)
IsList(v) == v.t = "list"

IsStr(v) == v.t = "str"

----------------------------------------------------------------------------
(* Python strings *)

UpperChars == "ABCDEFGHIJKLMNOPQRSTUVWXYZ"

LowerChars == "abcdefghijklmnopqrstuvwxyz"

\* code-point order of the characters the model uses
AsciiOrder == " 0123456789ABCDEFGHIJKLMNOPQRSTUVWXYZabcdefghijklmnopqrstuvwxyz"

CharAt(s, i) == SubSeq(s, i, i)

IndexIn(c, alphabet) ==
    IF \E i \in 1..Len(alphabet) : CharAt(alphabet, i) = c
    THEN CHOOSE i \in 1..Len(alphabet) : CharAt(alphabet, i) = c
    ELSE 0

CharsOf(alphabet) == {CharAt(alphabet, i) : i \in 1..Len(alphabet)}

\* the lowercase of each uppercase letter, and the reverse
ToLower == [c \in CharsOf(UpperChars) |-> CharAt(LowerChars, IndexIn(c, UpperChars))]

ToUpper == [c \in CharsOf(LowerChars) |-> CharAt(UpperChars, IndexIn(c, LowerChars))]

\* the place of each character in the code-point order
AsciiRank == [c \in CharsOf(AsciiOrder) |-> IndexIn(c, AsciiOrder)]

LowerChar(c) == IF c \in DOMAIN ToLower THEN ToLower[c] ELSE c

UpperChar(c) == IF c \in DOMAIN ToUpper THEN ToUpper[c] ELSE c

CharRank(c) == IF c \in DOMAIN AsciiRank THEN AsciiRank[c] ELSE 0

RECURSIVE Lower(_)
\* s.lower()
Lower(s) == IF s = "" THEN "" ELSE LowerChar(CharAt(s, 1)) \o Lower(SubSeq(s, 2, Len(s)))

RECURSIVE LStrip(_)
LStrip(s) == IF s # "" /\ CharAt(s, 1) = " " THEN LStrip(SubSeq(s, 2, Len(s))) ELSE s

RECURSIVE RStrip(_)
RStrip(s) ==
    IF s # "" /\ CharAt(s, Len(s)) = " " THEN RStrip(SubSeq(s, 1, Len(s) - 1)) ELSE s

\* s.strip()
Strip(s) == RStrip(LStrip(s))

\* sub in s
Contains(sub, s) ==
    \E i \in 1..(Len(s) - Len(sub) + 1) : SubSeq(s, i, i + Len(sub) - 1) = sub

RECURSIVE SplitFrom(_, _)
\* the words of s, cur being the word read so far
SplitFrom(s, cur) ==
    IF s = "" THEN (IF cur = "" THEN <<>> ELSE <<cur>>)
    ELSE IF CharAt(s, 1) = " "
         THEN (IF cur = "" THEN <<>> ELSE <<cur>>) \o SplitFrom(SubSeq(s, 2, Len(s)), "")
         ELSE SplitFrom(SubSeq(s, 2, Len(s)), cur \o CharAt(s, 1))

\* s.split()
Split(s) == SplitFrom(s, "")

RECURSIVE StrLess(_, _)
\* a < b on strings
StrLess(a, b) ==
    IF b = "" THEN FALSE
    ELSE IF a = "" THEN TRUE
    ELSE LET ra == CharRank(CharAt(a, 1))
             rb == CharRank(CharAt(b, 1))
         IN IF ra # rb THEN ra < rb
            ELSE StrLess(SubSeq(a, 2, Len(a)), SubSeq(b, 2, Len(b)))

Digits == "0123456789"

RECURSIVE NatStr(_)
NatStr(k) == IF k < 10 THEN CharAt(Digits, k + 1) ELSE NatStr(k \div 10) \o CharAt(Digits, (k % 10) + 1)

\* str(v) for the values the normalizer stringifies
StrOf(v) ==
    CASE v.t = "none" -> "None"
      [] v.t = "str" -> v.s
      [] v.t = "int" -> IF v.n < 0 THEN "-" \o NatStr(-v.n) ELSE NatStr(v.n)
      [] v.t = "float" ->
            (IF v.n < 0 THEN "-" ELSE "")
            \o NatStr((IF v.n < 0 THEN -v.n ELSE v.n) \div 1000) \o "."
            \o NatStr(((IF v.n < 0 THEN -v.n ELSE v.n) % 1000) \div 100)
      [] OTHER -> "[...]"

\* F of the value of v, the value being computed once
With(v, F(_)) == CHOOSE r \in {F(x) : x \in {v}} : TRUE

----------------------------------------------------------------------------
(* Python exceptions: a function that can raise returns [ok, val, err] *)

Ok(v) == [ok |-> TRUE, val |-> v, err |-> ""]

Raise(e) == [ok |-> FALSE, val |-> <<>>, err |-> e]

----------------------------------------------------------------------------
(* sorted() *)

\* a < b as sorted() evaluates it; defined when Comparable(a, b)
PyLess(a, b) == IF IsStr(a) THEN StrLess(a.s, b.s) ELSE NumVal(a) < NumVal(b)

Comparable(a, b) == (IsStr(a) /\ IsStr(b)) \/ (IsNum(a) /\ IsNum(b))

RECURSIVE InsertSorted(_, _)
\* x inserted into the sorted q after the elements that are not greater (stable)
InsertSorted(q, x) ==
    IF q = <<>> THEN <<x>>
    ELSE IF PyLess(x, Head(q)) THEN <<x>> \o q
         ELSE <<Head(q)>> \o InsertSorted(Tail(q), x)

RECURSIVE SortList(_)
SortList(q) == IF q = <<>> THEN <<>> ELSE InsertSorted(SortList(SubSeq(q, 1, Len(q) - 1)), q[Len(q)])

\* sorted(q): TypeError when two elements have no order
Sorted(q) ==
    IF \A i, j \in 1..Len(q) : i < j => Comparable(q[i], q[j])
    THEN Ok(SortList(q))
    ELSE Raise("TypeError")

----------------------------------------------------------------------------
(* Entity Normalizer: production_entity_extractor.py *)

\* nickname_map of _normalize_item
nickname_map ==
    [k \in {"rainbro", "rainbow", "double rainbro", "double rainbow", "wc mocha", "nsh"} |->
        CASE k = "rainbro" -> "rainbow rebel"
          [] k = "rainbow" -> "rainbow rebel"
          [] k = "double rainbro" -> "rainbow rebel"
          [] k = "double rainbow" -> "rainbow rebel"
          [] k = "wc mocha" -> "white chocolate mocha"
          [] k = "nsh" -> "not so hot"]

\* size in ['null', None, ''] / temp in ['null', None, '']
IsNullToken(v) == PyEq(v, PStr("null")) \/ PyEq(v, PyNone) \/ PyEq(v, PStr(""))

\* 'double blended' not in mods, for mods a list or a string
NotInMods(x, mods) ==
    IF IsList(mods) THEN \A i \in 1..Len(mods.l) : ~PyEq(mods.l[i], PStr(x))
    ELSE ~Contains(x, mods.s)

\* the temperature and modifiers after "Clean temperature values"
CleanTemperature(temp, mods) ==
    IF PyEq(temp, PStr("blended")) \/ Contains("blended", StrOf(temp))
    THEN [temp |-> PStr("blended"), mods |-> mods]
    ELSE IF PyEq(temp, PStr("double blended"))
         THEN [temp |-> PStr("blended"),
               mods |-> IF NotInMods("double blended", mods)
                        THEN PList(Append(mods.l, PStr("double blended")))
                        ELSE mods]
         ELSE [temp |-> temp, mods |-> mods]

\* the dict _normalize_item returns
NormalizedDict(product, size, temp, mods, qty) ==
    [k \in {"raw_text", "product_hint", "size", "temperature", "modifiers", "quantity",
            "confidence"} |->
        CASE k = "raw_text" -> PStr("")
          [] k = "product_hint" -> PStr(product)
          [] k = "size" -> size
          [] k = "temperature" -> temp
          [] k = "modifiers" -> (IF IsList(mods) THEN mods ELSE PList(<<>>))
          [] k = "quantity" -> qty
          [] k = "confidence" -> PFloat(1000)]

\* the product phrase a candidate carries: item.get('product') or item.get('product_name', '')
ProductField(item) == Or(Get(item, "product"), GetD(item, "product_name", PStr("")))

TempField(item) == Or(Get(item, "temp"), Get(item, "temperature"))

ModsField(item) == Or(Get(item, "mods"), GetD(item, "modifiers", PList(<<>>)))

QtyField(item) == Or(Get(item, "qty"), GetD(item, "quantity", PInt(1)))

\* _normalize_item
_normalize_item(item) ==
    LET size0 == Get(item, "size")
        temp0 == TempField(item)
        size == IF IsNullToken(size0) THEN PyNone ELSE size0
        temp1 == IF IsNullToken(temp0) THEN PyNone ELSE temp0
        cleaned == CleanTemperature(temp1, ModsField(item))
        product0 == Strip(Lower(StrOf(ProductField(item))))
        product == IF product0 \in DOMAIN nickname_map THEN nickname_map[product0] ELSE product0
    IN NormalizedDict(product, size, cleaned.temp, cleaned.mods, QtyField(item))

\* number of elements of q that satisfy P
CountIf(q, P(_)) == Cardinality({i \in 1..Len(q) : P(q[i])})

\* x rounded to the nearest integer, halves to the even one, for x = num / den
RoundHalfEven(num, den) ==
    LET q == num \div den
        r == num % den
    IN IF 2 * r > den THEN q + 1
       ELSE IF 2 * r = den THEN q + (q % 2)
       ELSE q

\* the factors of _calculate_confidence, each a fraction [num, den]
WordFactor(product, text) ==
    IF Contains(product, text) THEN [num |-> 1, den |-> 1]
    ELSE LET product_words == Split(product)
             InText(word) == Len(word) > 2 /\ Contains(word, text)
             found_words == CountIf(product_words, InText)
             n == IF Len(product_words) > 1 THEN Len(product_words) ELSE 1
         IN [num |-> 3 * n + 7 * found_words, den |-> 10 * n]

AttributeFactor(item) ==
    IF ~Truthy(item["size"]) /\ ~Truthy(item["temperature"])
    THEN [num |-> 9, den |-> 10]
    ELSE [num |-> 1, den |-> 1]

ModifierFactor(mods, text) ==
    IF mods = <<>> THEN [num |-> 1, den |-> 1]
    ELSE LET InText(mod) == Contains(mod.s, text)
             valid_mods == CountIf(mods, InText)
         IN [num |-> Len(mods) + valid_mods, den |-> 2 * Len(mods)]

LengthFactor(product) ==
    IF Len(product) < 4 THEN [num |-> 7, den |-> 10] ELSE [num |-> 1, den |-> 1]

\* _calculate_confidence: the product of the factors, rounded to 2 decimals (in
\* thousandths); `mod in text` raises TypeError for a modifier that is not a string.
\* The rounding is that of the exact product; a binary float that sits on a tie may
\* round the other way by 0.01.
_calculate_confidence(item, text) ==
    LET product == item["product_hint"].s
        mods == item["modifiers"].l
    IN IF \E i \in 1..Len(mods) : ~IsStr(mods[i]) THEN Raise("TypeError")
       ELSE LET f1 == WordFactor(product, text)
                f2 == AttributeFactor(item)
                f3 == ModifierFactor(mods, text)
                f4 == LengthFactor(product)
            IN Ok(10 * RoundHalfEven(100 * f1.num * f2.num * f3.num * f4.num,
                                     f1.den * f2.den * f3.den * f4.den))

false_positives == {"thank", "please", "awesome", "great", "good", "fun", "course"}

\* the admission threshold 0.4, in thousandths
MinConfidence == 400

\* _is_valid_item without its stoplist check
IsValidItemNoStoplist(item) ==
    LET product == item["product_hint"].s
    IN IF product = "" \/ Len(product) < 3 THEN FALSE
       ELSE IF item["confidence"].n < MinConfidence THEN FALSE
       ELSE TRUE

\* _is_valid_item
_is_valid_item(item) ==
    LET product == item["product_hint"].s
    IN IF product = "" \/ Len(product) < 3 THEN FALSE
       ELSE IF product \in false_positives THEN FALSE
       ELSE IF item["confidence"].n < MinConfidence THEN FALSE
       ELSE TRUE

\* the signature _deduplicate compares
Signature(item) ==
    LET mods == ModsField(item)
        sorted == IF IsList(mods) THEN Sorted(mods.l) ELSE Ok(<<>>)
    IN IF sorted.ok
       THEN Ok([product |-> Lower(StrOf(ProductField(item))),
                size |-> Get(item, "size"),
                temp |-> TempField(item),
                mods |-> sorted.val])
       ELSE sorted

\* two signature tuples are equal
SigEq(a, b) ==
    /\ a.product = b.product
    /\ PyEq(a.size, b.size)
    /\ PyEq(a.temp, b.temp)
    /\ Len(a.mods) = Len(b.mods)
    /\ \A i \in 1..Len(a.mods) : PyEq(a.mods[i], b.mods[i])

RECURSIVE DedupFrom(_, _, _, _)
\* the loop of _deduplicate from item i on
DedupFrom(items, i, seen, unique) ==
    IF i > Len(items) THEN Ok(unique)
    ELSE LET sig == Signature(items[i])
         IN IF ~sig.ok THEN sig
            ELSE IF \A k \in 1..Len(seen) : ~SigEq(seen[k], sig.val)
                 THEN DedupFrom(items, i + 1, Append(seen, sig.val), Append(unique, items[i]))
                 ELSE DedupFrom(items, i + 1, seen, unique)

\* _deduplicate
_deduplicate(items) == DedupFrom(items, 1, <<>>, <<>>)

\* one pass of the loop body of _validate_and_score up to the validation: the item
\* normalized, with its confidence set
ScoredItem(item, text_lower) ==
    LET normalized == _normalize_item(item)
        confidence == _calculate_confidence(normalized, text_lower)
    IN IF ~confidence.ok THEN confidence
       ELSE Ok([normalized EXCEPT !["confidence"] = PFloat(confidence.val)])

RECURSIVE ScoreFrom(_, _, _, _)
\* the loop of _validate_and_score from item i on
ScoreFrom(items, i, text_lower, validated) ==
    IF i > Len(items) THEN Ok(validated)
    ELSE LET scored == ScoredItem(items[i], text_lower)
         IN IF ~scored.ok THEN scored
            ELSE ScoreFrom(items, i + 1, text_lower,
                           IF _is_valid_item(scored.val) THEN Append(validated, scored.val)
                           ELSE validated)

\* _validate_and_score
_validate_and_score(items, original_text) ==
    LET unique == _deduplicate(items)
    IN IF ~unique.ok THEN unique
       ELSE ScoreFrom(unique.val, 1, Lower(original_text), <<>>)

----------------------------------------------------------------------------
(* Alias Resolver tables: product_variations.py *)

PRODUCT_VARIATIONS ==
    [k \in {"white chocolate mocha", "wc mocha", "rainbow rebel", "rainbro rebel", "rainbro",
            "double rainbow rebel", "double rainbro", "golden eagle", "colon eagle",
            "chocolate mocha", "carmelizer", "carameliser", "hot chocolate",
            "kids hot chocolate", "cocoa"} |->
        CASE k \in {"white chocolate mocha", "wc mocha"} -> "white mocha"
          [] k \in {"rainbow rebel", "rainbro rebel", "rainbro"} -> "rainbow rebel"
          [] k \in {"double rainbow rebel", "double rainbro"} -> "double rainbro rebel"
          [] k \in {"golden eagle", "colon eagle"} -> "golden eagle"
          [] k = "chocolate mocha" -> "dark chocolate mocha"
          [] k \in {"carmelizer", "carameliser"} -> "caramelizer"
          [] k \in {"hot chocolate", "kids hot chocolate", "cocoa"} -> "hot cocoa"]

UNKNOWN_PRODUCTS ==
    [k \in {"not so hot", "nsh"} |->
        CASE k = "not so hot" ->
                <<"hot cocoa", "build your own: hot cocoa", "zero sugar added hot cocoa">>
          [] k = "nsh" -> <<"hot cocoa", "build your own: hot cocoa">>]

\* resolve_product(customer_phrase): the tuple (resolved_name, exists, suggestions)
resolve_product(customer_phrase) ==
    LET phrase_lower == Strip(Lower(customer_phrase))
    IN IF phrase_lower \in DOMAIN PRODUCT_VARIATIONS
       THEN [resolved_name |-> PRODUCT_VARIATIONS[phrase_lower], exists |-> TRUE,
             suggestions |-> <<>>]
       ELSE IF phrase_lower \in DOMAIN UNKNOWN_PRODUCTS
       THEN [resolved_name |-> phrase_lower, exists |-> FALSE,
             suggestions |-> UNKNOWN_PRODUCTS[phrase_lower]]
       ELSE [resolved_name |-> phrase_lower, exists |-> TRUE, suggestions |-> <<>>]

----------------------------------------------------------------------------
(* Product Matcher: fuzzy_matcher.py *)

\* self.nicknames of FuzzyMenuMatcher.__init__
nicknames ==
    [k \in {"rainbro", "rainbow", "double rainbro", "colon eagle", "wc mocha",
            "white chocolate mocha", "hot white chocolate mocha", "carmelizer"} |->
        CASE k \in {"rainbro", "rainbow"} -> "rainbro rebel"
          [] k = "double rainbro" -> "double rainbro rebel"
          [] k = "colon eagle" -> "golden eagle"
          [] k \in {"wc mocha", "white chocolate mocha", "hot white chocolate mocha"} ->
                "white mocha"
          [] k = "carmelizer" -> "caramelizer"]

\* a catalog product: a dict with name, chainproductid and cost
Product(name, id, cost) ==
    [name |-> PStr(name), chainproductid |-> PStr(id), cost |-> PFloat(cost)]

\* `not product` for a value that is a product dict or None
NoProduct(product) == product = PyNone \/ DOMAIN product = {}

\* self.embeddings is None
NoEmbeddings == [none |-> TRUE, of |-> <<>>]

\* the embeddings of the names, in their order
EmbeddingsOf(names) == [none |-> FALSE, of |-> names]

\* no file data/menu/embeddings_cache.pkl
NoCache == [exists |-> FALSE, readable |-> FALSE, names |-> <<>>]

CacheOf(names) == [exists |-> TRUE, readable |-> TRUE, names |-> names]

\* _build_embeddings that never looks at the cache file
BuildWithoutCache(catalog, cache) ==
    IF Len(catalog) = 0
    THEN [product_names |-> <<>>, embeddings |-> NoEmbeddings, cache |-> cache]
    ELSE LET names == [i \in 1..Len(catalog) |->
                          Lower(Or(Get(catalog[i], "name"), PStr("")).s)]
         IN [product_names |-> names, embeddings |-> EmbeddingsOf(names),
             cache |-> CacheOf(names)]

\* _build_embeddings: the matcher's product_names and embeddings and the cache file
\* it leaves, for the catalog and the cache file it finds
_build_embeddings(catalog, cache) ==
    IF Len(catalog) = 0
    THEN [product_names |-> <<>>, embeddings |-> NoEmbeddings, cache |-> cache]
    ELSE IF cache.exists /\ cache.readable /\ Len(cache.names) = Len(catalog)
         THEN [product_names |-> cache.names, embeddings |-> EmbeddingsOf(cache.names),
               cache |-> cache]
         ELSE LET names == [i \in 1..Len(catalog) |->
                               Lower(Or(Get(catalog[i], "name"), PStr("")).s)]
              IN [product_names |-> names, embeddings |-> EmbeddingsOf(names),
                  cache |-> CacheOf(names)]

\* what the sentence-transformer and fuzzywuzzy say of one (query, name) pair: the
\* cosine similarity and the weighted fuzzy score, in hundredths.  Both are outside
\* this repository; the model lets them be any of these levels, once per pair.
SimLevels ==
    {[sem |-> 10, fuz |-> 20], [sem |-> 40, fuz |-> 50], [sem |-> 95, fuz |-> 90]}

\* identical strings: cosine similarity 1.0 and every fuzz ratio 100
SimIdentical == [sem |-> 100, fuz |-> 100]

\* match() with the color contradiction section left out
NoColorPenalty(query_lower, product_name) == 0

\* the color contradiction penalty of one product name, in thousandths
color_penalty(query_lower, product_name) ==
    LET query_words == {Split(query_lower)[i] : i \in 1..Len(Split(query_lower))}
        name == Lower(product_name)
        white == IF "white" \in query_words
                 THEN (IF Contains("dark", name) THEN -1000
                       ELSE IF Contains("double chocolate", name) THEN -800
                       ELSE 0)
                 ELSE 0
    IN IF "dark" \in query_words /\ Contains("white", name) THEN -1000 ELSE white

\* combined_scores[i], in thousandths
combined_score(query_lower, product_name, sim) ==
    6 * sim.sem + 4 * sim.fuz + color_penalty(query_lower, product_name)

RECURSIVE InsertByScore(_, _, _)
InsertByScore(q, i, score) ==
    IF q = <<>> THEN <<i>>
    ELSE IF score[i] < score[Head(q)] THEN <<i>> \o q
         ELSE <<Head(q)>> \o InsertByScore(Tail(q), i, score)

RECURSIVE ArgsortFrom(_, _)
ArgsortFrom(score, n) ==
    IF n = 0 THEN <<>> ELSE InsertByScore(ArgsortFrom(score, n - 1), n, score)

\* np.argsort(score): the indices by ascending score; arrays this short are sorted by
\* insertion, which keeps equal scores in index order
Argsort(score) == ArgsortFrom(score, Len(score))

Reverse(q) == [i \in 1..Len(q) |-> q[Len(q) + 1 - i]]

Take(q, k) == SubSeq(q, 1, IF k < Len(q) THEN k ELSE Len(q))

\* the query match() scores: lowercased, trimmed, nickname replaced
ScoredQuery(query) ==
    LET query_lower == Strip(Lower(query))
    IN IF query_lower \in DOMAIN nicknames THEN nicknames[query_lower] ELSE query_lower

\* match() returns before scoring
MatchReturnsEarly(query, m) == query = "" \/ m.embeddings.none \/ Len(m.product_names) = 0

RECURSIVE MatchesFrom(_, _, _, _, _, _)
\* the loop of match() over top_indices
MatchesFrom(m, top_indices, k, combined, sims, threshold) ==
    IF k > Len(top_indices) THEN <<>>
    ELSE LET idx == top_indices[k]
             rest == MatchesFrom(m, top_indices, k + 1, combined, sims, threshold)
         IN IF idx > Len(m.products) THEN rest
            ELSE IF combined[idx] < threshold THEN rest
            ELSE <<[product |-> m.products[idx],
                    product_name |-> Get(m.products[idx], "name"),
                    product_id |-> Get(m.products[idx], "chainproductid"),
                    similarity |-> combined[idx],
                    semantic_score |-> sims[idx].sem,
                    fuzzy_score |-> sims[idx].fuz,
                    base_price |-> GetD(m.products[idx], "cost", PInt(0))]>> \o rest

\* match(query, top_k, threshold) of the matcher m = [products, product_names,
\* embeddings], sims[i] being the similarity of the query and product_names[i]
match(m, query, top_k, threshold, sims) ==
    IF MatchReturnsEarly(query, m) THEN <<>>
    ELSE LET query_lower == ScoredQuery(query)
             combined == [i \in 1..Len(m.product_names) |->
                             combined_score(query_lower, m.product_names[i], sims[i])]
             top_indices == Take(Reverse(Argsort(combined)), top_k)
         IN MatchesFrom(m, top_indices, 1, combined, sims, threshold)

\* match() goes on to embed the query and score it against every product name
MatchScores(m, query) == ~MatchReturnsEarly(query, m)

\* match_best returned None
MatchNone == [none |-> TRUE]

\* the dict match_best returns for a known non-existent product
KnownAbsentResult(query, suggestions) ==
    [none |-> FALSE, product |-> PyNone, product_name |-> PStr(query),
     product_id |-> PyNone, similarity |-> 0, exists |-> FALSE,
     suggestions |-> suggestions, original_query |-> query]

\* the best match with the metadata match_best adds
BestMatchResult(best_match, query) ==
    [none |-> FALSE, exists |-> TRUE, suggestions |-> <<>>, original_query |-> query]
    @@ best_match

\* match_best without the strip() of the query
MatchBestNoStrip(m, query, threshold, sims) ==
    LET query_lower == Lower(query)
    IN IF query_lower \in DOMAIN UNKNOWN_PRODUCTS
       THEN [ret |-> KnownAbsentResult(query, UNKNOWN_PRODUCTS[query_lower]),
             scored |-> FALSE]
       ELSE LET matches == match(m, query, 1, threshold, sims)
            IN [ret |-> IF matches # <<>> THEN BestMatchResult(matches[1], query)
                        ELSE MatchNone,
                scored |-> MatchScores(m, query)]

\* match_best(query, threshold): ret is the dict it returns (none for None), scored
\* tells whether the call embedded the query and scored it against the catalog.
\* The import of UNKNOWN_PRODUCTS is from this repository and does not fail.
match_best(m, query, threshold, sims) ==
    LET query_lower == Strip(Lower(query))
    IN IF query_lower \in DOMAIN UNKNOWN_PRODUCTS
       THEN [ret |-> KnownAbsentResult(query, UNKNOWN_PRODUCTS[query_lower]),
             scored |-> FALSE]
       ELSE LET matches == match(m, query, 1, threshold, sims)
            IN [ret |-> IF matches # <<>> THEN BestMatchResult(matches[1], query)
                        ELSE MatchNone,
                scored |-> MatchScores(m, query)]

\* any(category_hint.lower() in str(cat).lower() for cat in product_categories)
HasCategory(product, category_hint) ==
    LET product_categories == GetD(product, "categories", PList(<<>>)).l
    IN \E k \in 1..Len(product_categories) :
          Contains(Lower(category_hint), Lower(StrOf(product_categories[k])))

\* match_with_category(query, category_hint): the matches of match(query, 10, 0.3),
\* those of the hinted category raised by a fifth, and the first of the highest
match_with_category(m, query, category_hint, sims) ==
    LET matches == match(m, query, 10, 300, sims)
        boosted == [k \in 1..Len(matches) |->
                       IF HasCategory(matches[k].product, category_hint.s)
                       THEN [matches[k] EXCEPT !.similarity = (@ * 12) \div 10]
                       ELSE matches[k]]
        sorted == IF Truthy(category_hint) THEN boosted ELSE matches
        best == CHOOSE k \in 1..Len(sorted) :
                    /\ \A j \in 1..Len(sorted) : sorted[j].similarity <= sorted[k].similarity
                    /\ \A j \in 1..(k - 1) : sorted[j].similarity < sorted[k].similarity
    IN IF matches = <<>> THEN MatchNone
       ELSE [none |-> FALSE] @@ (IF Truthy(category_hint) THEN sorted[best] ELSE matches[1])

----------------------------------------------------------------------------
(* Order Composer: order_builder.py.  Money is in thousandths of a dollar. *)

\* round(x, 2) of an amount
RoundCents(m) == 10 * RoundHalfEven(m, 10)

RECURSIVE ParseNat(_, _)
\* the number the digit string s spells after acc
ParseNat(s, acc) ==
    IF s = "" THEN acc
    ELSE ParseNat(SubSeq(s, 2, Len(s)), 10 * acc + IndexIn(CharAt(s, 1), Digits) - 1)

\* int(v): a float is truncated toward zero, a string must spell a whole number
PyIntOf(v) ==
    CASE v.t = "int" -> Ok(v.n)
      [] v.t = "float" -> Ok(IF v.n >= 0 THEN v.n \div 1000 ELSE -((-v.n) \div 1000))
      [] v.t = "str" ->
            LET s == Strip(v.s)
            IN IF s # "" /\ \A i \in 1..Len(s) : CharAt(s, i) \in CharsOf(Digits)
               THEN Ok(ParseNat(s, 0))
               ELSE Raise("ValueError")
      [] OTHER -> Raise("TypeError")

RECURSIVE TitleFrom(_, _)
TitleFrom(s, start) ==
    IF s = "" THEN ""
    ELSE LET c == CharAt(s, 1)
             letter == c \in DOMAIN ToLower \/ c \in DOMAIN ToUpper
         IN (IF start THEN UpperChar(c) ELSE LowerChar(c))
            \o TitleFrom(SubSeq(s, 2, Len(s)), ~letter)

\* s.title()
Title(s) == TitleFrom(s, TRUE)

\* MenuLoader.modifier_chains: the modifier schema of each product that has one.
\* Prices of the chain are in thousandths: 0.625 is 625.
modifier_chains ==
    <<[chainproductid |-> "101",
       groups |-> <<[id |-> "size",
                     options |-> <<[id |-> "medium", name |-> "Medium", price_adjustment |-> 750],
                                   [id |-> "large", name |-> "Large", price_adjustment |-> 1125]>>],
                    [id |-> "toppings",
                     options |-> <<[id |-> "soft_top", name |-> "Soft Top", price_adjustment |-> 500],
                                   [id |-> "boba", name |-> "Boba", price_adjustment |-> 625]>>]>>]>>

\* MenuLoader.get_modifiers_for_product: the chain of the product, {} when it has none
get_modifiers_for_product(product_id) ==
    IF \E i \in 1..Len(modifier_chains) : modifier_chains[i].chainproductid = StrOf(product_id)
    THEN modifier_chains[CHOOSE i \in 1..Len(modifier_chains) :
                            /\ modifier_chains[i].chainproductid = StrOf(product_id)
                            /\ \A j \in 1..(i - 1) :
                                  modifier_chains[j].chainproductid # StrOf(product_id)]
    ELSE [groups |-> <<>>]

\* MenuLoader.get_image_url
get_image_url(product) == IF "image" \in DOMAIN product THEN product["image"] ELSE ""

\* all options of a chain in the order the loops visit them, each with its group id
OptionsOf(modifiers_data) ==
    LET RECURSIVE From(_)
        From(g) ==
            IF g > Len(modifiers_data.groups) THEN <<>>
            ELSE [i \in 1..Len(modifiers_data.groups[g].options) |->
                     [group |-> modifiers_data.groups[g].id,
                      option |-> modifiers_data.groups[g].options[i]]]
                 \o From(g + 1)
    IN From(1)

\* the first element of q that satisfies P, or none
First(q, P(_)) ==
    IF \E i \in 1..Len(q) : P(q[i])
    THEN [found |-> TRUE,
          val |-> q[CHOOSE i \in 1..Len(q) : P(q[i]) /\ \A j \in 1..(i - 1) : ~P(q[j])]]
    ELSE [found |-> FALSE, val |-> <<>>]

\* the fallback mapping of _get_size_price
size_prices ==
    [k \in {"small", "medium", "large", "kids"} |->
        CASE k = "small" -> 0 [] k = "medium" -> 500 [] k = "large" -> 1000 [] k = "kids" -> -500]

\* _get_size_price
_get_size_price(size, modifiers_data) ==
    IF ~Truthy(size) THEN 0
    ELSE With(Lower(StrOf(size)), LAMBDA size_l :
            LET IsSize(o) == o.group = "size" /\ Lower(o.option.id) = size_l
            IN With(First(OptionsOf(modifiers_data), IsSize), LAMBDA hit :
                  IF hit.found THEN hit.val.option.price_adjustment
                  ELSE IF size_l \in DOMAIN size_prices THEN size_prices[size_l]
                  ELSE 0))

\* isinstance(v, (int, float)) and v > 0
PositiveNumber(v) == IsNum(v) /\ NumVal(v) > 0

\* the fallback price of _infer_base_price and of a product with no price signal
DefaultBasePrice == 5500

\* _infer_base_price that looks at no price data of the product
InferDefaultOnly(product, size) == DefaultBasePrice

\* _infer_base_price: a product dict may carry "price" (a number), "prices",
\* "size_prices" or "price_by_size" (dicts from size to number) and "variants",
\* "options" or "items" (lists of dicts with size or name, and price)
_infer_base_price(product, size) ==
    IF NoProduct(product) THEN DefaultBasePrice
    ELSE IF PositiveNumber(Get(product, "price")) THEN NumVal(product["price"])
    ELSE LET MapPrice(smap_key) ==
                 IF smap_key \in DOMAIN product /\ Truthy(size)
                 THEN LET smap == product[smap_key]
                      IN Or(Or(Get(smap, StrOf(size)), Get(smap, Lower(StrOf(size)))),
                            Get(smap, Title(StrOf(size))))
                 ELSE PyNone
             MapHit(smap_key) == PositiveNumber(MapPrice(smap_key))
             maps == First(<<"prices", "size_prices", "price_by_size">>, MapHit)
             VariantHit(v) ==
                 /\ (~Truthy(size) \/
                     Contains(Lower(StrOf(size)),
                              Lower(Or(Or(Get(v, "size"), Get(v, "name")), PStr("")).s)))
                 /\ PositiveNumber(Get(v, "price"))
             ListPrice(key) ==
                 IF key \in DOMAIN product THEN First(product[key], VariantHit)
                 ELSE [found |-> FALSE, val |-> <<>>]
             ListHit(key) == ListPrice(key).found
             lists == First(<<"variants", "options", "items">>, ListHit)
         IN IF maps.found THEN NumVal(MapPrice(maps.val))
            ELSE IF lists.found THEN NumVal(ListPrice(lists.val).val["price"])
            ELSE DefaultBasePrice

\* the fallback price table of _build_modifier_item
modifier_prices ==
    [k \in {"soft top", "whipped cream", "whip", "oat milk", "almond milk", "coconut milk",
            "boba", "caramel drizzle", "chocolate drizzle", "extra shot", "double shot"} |->
        CASE k \in {"soft top", "whipped cream", "whip", "caramel drizzle", "chocolate drizzle"}
                -> 500
          [] k \in {"oat milk", "almond milk", "coconut milk", "boba"} -> 750
          [] k = "extra shot" -> 1000
          [] k = "double shot" -> 2000]

\* the price of a modifier neither the schema nor the table knows
DefaultModifierPrice == 500

\* _build_modifier_item that never looks at the product's modifier schema
ModifierFromTable(modifier_name, modifiers_data, item_id) ==
    [item_id |-> item_id, name |-> Title(StrOf(modifier_name)), item_type |-> "modifier",
     modifier_group |-> "custom", quantity |-> 1,
     unit_price |-> IF Lower(StrOf(modifier_name)) \in DOMAIN modifier_prices
                    THEN modifier_prices[Lower(StrOf(modifier_name))]
                    ELSE DefaultModifierPrice,
     display_order |-> 0]

\* _build_modifier_item, item_id being the fresh identifier
_build_modifier_item(modifier_name, modifiers_data, item_id) ==
    With(Lower(Or(modifier_name, PStr("")).s), LAMBDA name_l :
      LET Matches(o) ==
              With(Lower(o.option.name), LAMBDA option_name :
                  Contains(name_l, option_name) \/ Contains(option_name, name_l))
      IN With(First(OptionsOf(modifiers_data), Matches), LAMBDA hit :
           IF hit.found
           THEN [item_id |-> item_id, name |-> hit.val.option.name, item_type |-> "modifier",
                 modifier_group |-> hit.val.group, quantity |-> 1,
                 unit_price |-> hit.val.option.price_adjustment, display_order |-> 0]
           ELSE [item_id |-> item_id, name |-> Title(StrOf(modifier_name)),
                 item_type |-> "modifier", modifier_group |-> "custom", quantity |-> 1,
                 unit_price |-> IF name_l \in DOMAIN modifier_prices
                                THEN modifier_prices[name_l]
                                ELSE DefaultModifierPrice,
                 display_order |-> 0]))

\* _needs_clarification
_needs_clarification(item) ==
    (IF ~Truthy(Get(item, "size")) THEN <<"size">> ELSE <<>>)
    \o (IF ~Truthy(Get(item, "temperature")) THEN <<"temperature">> ELSE <<>>)

\* the sum of the numbers of q
RECURSIVE SumSeq(_)
SumSeq(q) == IF q = <<>> THEN 0 ELSE Head(q) + SumSeq(Tail(q))

\* the placeholder _build_order_item returns for an item with no product
PlaceholderItem(item, item_id) ==
    [item_id |-> item_id,
     product_id |-> PyNone,
     name |-> GetD(item, "product_name", PStr("Unknown Product")),
     category |-> "unknown",
     item_type |-> "standard",
     quantity |-> GetD(item, "quantity", PInt(1)),
     unit_price |-> 0,
     image_url |-> "",
     display_order |-> 0,
     size |-> Get(item, "size"),
     temperature |-> Get(item, "temperature"),
     child_items |-> <<>>,
     metadata |-> [status |-> "requires_manual_selection",
                   original_query |-> GetD(item, "original_query", PStr("")),
                   suggestions |-> GetD(item, "suggestions", <<>>),
                   match_confidence |-> 0]]

\* the modifier phrases the loop of _build_order_item visits: the elements of a list,
\* the characters of a string; anything else cannot be iterated
ModifierNames(item) ==
    LET modifiers == GetD(item, "modifiers", PList(<<>>))
    IN CASE modifiers.t = "list" -> Ok(modifiers.l)
         [] modifiers.t = "str" -> Ok([i \in 1..Len(modifiers.s) |-> PStr(CharAt(modifiers.s, i))])
         [] OTHER -> Raise("TypeError")

\* the base price of a matched item: its own when numeric and > 0, else inferred
BasePrice(item) ==
    IF PositiveNumber(Get(item, "base_price")) THEN NumVal(item["base_price"])
    ELSE _infer_base_price(item["product"], Get(item, "size"))

\* unit_price before rounding, with the size adjustment left out
UnitPriceNoSize(base_price, size_price, modifier_total) == base_price + modifier_total

\* unit_price before rounding
UnitPrice(base_price, size_price, modifier_total) == base_price + size_price + modifier_total

\* the line of a matched item whose price pieces are known; uuid is the number of
\* identifiers handed out before the call
MatchedItem(item, product_id, child_items, base_price, size_price, quantity, uuid) ==
    LET modifier_total == SumSeq([i \in 1..Len(child_items) |-> child_items[i].unit_price])
        unit_price == UnitPrice(base_price, size_price, modifier_total)
    IN [item_id |-> uuid + Len(child_items) + 1,
        product_id |-> product_id,
        name |-> Or(Or(Get(item, "product_name"), Get(item["product"], "name")),
                    PStr("Unknown Item")),
        category |-> "drink",
        item_type |-> "standard",
        quantity |-> PInt(quantity),
        unit_price |-> RoundCents(unit_price),
        image_url |-> get_image_url(item["product"]),
        display_order |-> 0,
        size |-> Get(item, "size"),
        temperature |-> Get(item, "temperature"),
        child_items |-> child_items,
        pricing_breakdown |-> [base_price |-> RoundCents(base_price),
                               size_adjustment |-> RoundCents(size_price),
                               modifiers_total |-> RoundCents(modifier_total),
                               total |-> RoundCents(unit_price)],
        metadata |-> [match_confidence |-> GetD(item, "match_confidence", PFloat(0)),
                      needs_clarification |-> _needs_clarification(item)]]

\* the line of a matched item from its evaluated pieces
MatchedLine(item, product_id, modifiers_data, names, quantity, uuid) ==
    With([i \in 1..Len(names) |-> _build_modifier_item(names[i], modifiers_data, uuid + i)],
         LAMBDA child_items :
            With(<<BasePrice(item), _get_size_price(Get(item, "size"), modifiers_data)>>,
                 LAMBDA price :
                    MatchedItem(item, product_id, child_items, price[1], price[2],
                                quantity, uuid)))

\* _build_order_item: the line item, or the exception it raises
_build_order_item(item, uuid) ==
    IF NoProduct(GetD(item, "product", PyNone)) THEN Ok(PlaceholderItem(item, uuid + 1))
    ELSE LET product == item["product"]
             product_id == Or(Get(item, "product_id"),
                              PStr(StrOf(Or(Get(product, "chainproductid"), PStr("")))))
             names == ModifierNames(item)
             quantity == PyIntOf(GetD(item, "quantity", PInt(1)))
         IN IF ~names.ok THEN names
            ELSE IF \E i \in 1..Len(names.val) :
                       Truthy(names.val[i]) /\ ~IsStr(names.val[i])
                 THEN Raise("AttributeError")
            ELSE IF ~quantity.ok THEN quantity
            ELSE With(get_modifiers_for_product(product_id), LAMBDA modifiers_data :
                    Ok(MatchedLine(item, product_id, modifiers_data, names.val,
                                   quantity.val, uuid)))

RECURSIVE BuildMatchedFrom(_, _, _, _)
\* the first loop of build_order, passing over the items that have no product
BuildMatchedFrom(matched_items, i, uuid, order_items) ==
    IF i > Len(matched_items) THEN Ok(order_items)
    ELSE IF NoProduct(GetD(matched_items[i], "product", PyNone))
         THEN BuildMatchedFrom(matched_items, i + 1, uuid, order_items)
    ELSE With(_build_order_item(matched_items[i], uuid), LAMBDA order_item :
            IF ~order_item.ok THEN order_item
            ELSE BuildMatchedFrom(matched_items, i + 1,
                                  order_item.val.item_id, Append(order_items, order_item.val)))

RECURSIVE BuildItemsFrom(_, _, _, _)
\* the first loop of build_order from item i on; every order_item is a non-empty
\* dict, so every one is appended
BuildItemsFrom(matched_items, i, uuid, order_items) ==
    IF i > Len(matched_items) THEN Ok(order_items)
    ELSE With(_build_order_item(matched_items[i], uuid), LAMBDA order_item :
            IF ~order_item.ok THEN order_item
            ELSE BuildItemsFrom(matched_items, i + 1,
                                order_item.val.item_id, Append(order_items, order_item.val)))

\* the subtotal with every line counted once, whatever its quantity
SubtotalNoQuantity(order_items) ==
    IF \E i \in 1..Len(order_items) : ~PyIntOf(order_items[i].quantity).ok
    THEN Raise("TypeError")
    ELSE Ok(SumSeq([i \in 1..Len(order_items) |-> order_items[i].unit_price]))

\* the subtotal of build_order: the sum of unit_price * int(quantity)
Subtotal(order_items) ==
    IF \E i \in 1..Len(order_items) : ~PyIntOf(order_items[i].quantity).ok
    THEN Raise((CHOOSE r \in {PyIntOf(order_items[i].quantity) : i \in 1..Len(order_items)} :
                  ~r.ok).err)
    ELSE Ok(SumSeq([i \in 1..Len(order_items) |->
                      order_items[i].unit_price * PyIntOf(order_items[i].quantity).val]))

\* the order dict build_order assembles (without its created_at timestamp)
OrderDict(order_items, subtotal, customer_name, notes) ==
    [source |-> "broista_copilot",
     customer_name |-> IF customer_name = "" THEN "Voice Order" ELSE customer_name,
     notes |-> notes,
     items |-> order_items,
     subtotal |-> RoundCents(subtotal),
     total |-> RoundCents(subtotal),
     metadata |-> [capture_method |-> "voice_ai",
                   ai_models |-> <<"whisper", "bedrock_llama3.1">>,
                   item_count |-> Len(order_items)]]

\* build_order: the order dict, or the exception it raises; a missing customer
\* name or note is ""
build_order(matched_items, customer_name, notes, uuid) ==
    With(BuildItemsFrom(matched_items, 1, uuid, <<>>), LAMBDA order_items :
        IF ~order_items.ok THEN order_items
        ELSE With(Subtotal(order_items.val), LAMBDA subtotal :
                IF ~subtotal.ok THEN subtotal
                ELSE Ok(OrderDict(order_items.val, subtotal.val, customer_name, notes))))

----------------------------------------------------------------------------
(* Extractor entry point and pipeline: production_entity_extractor.py,      *)
(* api_pipeline.py                                                           *)

\* What the language model answered: kind "error" when _call_bedrock raised, "prose"
\* when the answer holds no JSON, "array" when it holds a JSON array of objects.
\* _parse_chain_of_thought keeps the objects of the array whose "product" is truthy.
_parse_chain_of_thought(response) ==
    IF response.kind = "array"
    THEN SelectSeq(response.items, LAMBDA item_dict : Truthy(Get(item_dict, "product")))
    ELSE <<>>

\* _extract_with_reasoning: an exception of the call or of the parsing gives []
_extract_with_reasoning(response) ==
    IF response.kind = "error" THEN <<>> ELSE _parse_chain_of_thought(response)

\* extract_with_confidence: the validated items and their average confidence (in
\* thousandths, truncated), or the exception of _validate_and_score
extract_with_confidence(text, response) ==
    IF ~IsStr(text) THEN Raise("AttributeError")
    ELSE With(_validate_and_score(_extract_with_reasoning(response), text.s),
              LAMBDA validated_items :
                 IF ~validated_items.ok THEN validated_items
                 ELSE Ok([items |-> validated_items.val,
                          confidence |->
                             IF validated_items.val = <<>> THEN 0
                             ELSE SumSeq([i \in 1..Len(validated_items.val) |->
                                            validated_items.val[i]["confidence"].n])
                                  \div Len(validated_items.val)]))

\* the result dict an entry point starts from; {} is <<>>
NewResult(transcription) ==
    [success |-> FALSE, error |-> PyNone, transcription |-> transcription,
     extraction |-> <<>>, matching |-> <<>>, order |-> <<>>, flags |-> <<>>]

\* the except clause of an entry point that leaves the error unset
CaughtUnreported(res, e) == [res EXCEPT !.success = FALSE]

\* the except clause of an entry point: success False and error str(e)
Caught(res, e) == [res EXCEPT !.success = FALSE, !.error = PStr(e)]

\* "match and match.get('product')" of the value match_best returned
HasProduct(best) == ~best.none /\ ~NoProduct(best.product)

\* item['confidence'] + match['similarity'], twice the combined confidence; both are
\* even numbers of thousandths
ConfidenceSum(item, best) == item["confidence"].n + best.similarity

\* a matched item that takes its base price from the catalog product
MatchedItemAtCatalogPrice(item, best) ==
    [product |-> best.product,
     product_id |-> best.product_id,
     product_name |-> best.product_name,
     base_price |-> best.base_price,
     size |-> item["size"],
     temperature |-> item["temperature"],
     modifiers |-> item["modifiers"],
     quantity |-> item["quantity"],
     match_confidence |-> PFloat(best.similarity),
     extraction_confidence |-> item["confidence"],
     overall_confidence |-> PFloat(ConfidenceSum(item, best) \div 2),
     exists |-> best.exists,
     suggestions |-> best.suggestions,
     original_query |-> item["product_hint"]]

\* the dict both entry points append to matched_items
matched_item(item, best) ==
    [product |-> best.product,
     product_id |-> best.product_id,
     product_name |-> best.product_name,
     base_price |-> PFloat(5500),
     size |-> item["size"],
     temperature |-> item["temperature"],
     modifiers |-> item["modifiers"],
     quantity |-> item["quantity"],
     match_confidence |-> PFloat(best.similarity),
     extraction_confidence |-> item["confidence"],
     overall_confidence |-> PFloat(ConfidenceSum(item, best) \div 2),
     exists |-> best.exists,
     suggestions |-> best.suggestions,
     original_query |-> item["product_hint"]]

\* the dict process_audio appends to unmatched_items
unmatched_item(item, suggestions) ==
    [product_name |-> item["product_hint"],
     size |-> item["size"],
     temperature |-> item["temperature"],
     modifiers |-> item["modifiers"],
     quantity |-> item["quantity"],
     suggestions |-> suggestions,
     original_query |-> item["product_hint"]]

\* combined_confidence < 0.75
LowConfidence(item, best) == ConfidenceSum(item, best) < 1500

\* the flags one item adds in process_audio
AudioFlags(item, best) ==
    IF HasProduct(best)
    THEN IF LowConfidence(item, best)
         THEN <<[item |-> best.product_name, reason |-> "low_confidence",
                 confidence |-> PFloat(ConfidenceSum(item, best) \div 2),
                 action |-> "review"]>>
         ELSE <<>>
    ELSE IF ~best.none
    THEN <<[item |-> item["product_hint"], reason |-> "not_in_menu",
            suggestions |-> best.suggestions, action |-> "manual_selection"]>>
    ELSE <<[item |-> item["product_hint"], reason |-> "no_match",
            suggestions |-> <<>>, action |-> "manual_entry"]>>

\* the flags one item adds in process_text
TextFlags(item, best) ==
    IF HasProduct(best) /\ LowConfidence(item, best)
    THEN <<[item |-> best.product_name, reason |-> "low_confidence",
            confidence |-> PFloat(ConfidenceSum(item, best) \div 2)]>>
    ELSE <<>>

\* what one item adds to unmatched_items in process_audio
AudioUnmatched(item, best) ==
    IF HasProduct(best) THEN <<>>
    ELSE <<unmatched_item(item, IF best.none THEN <<>> ELSE best.suggestions)>>

\* result["matching"] of each entry point
Matching(entry, matched, unmatched) ==
    IF entry = "process_audio"
    THEN [matched_count |-> Len(matched), unmatched_count |-> Len(unmatched),
          matched_items |-> matched, unmatched_items |-> unmatched]
    ELSE [matched_count |-> Len(matched), matched_items |-> matched]

----------------------------------------------------------------------------
(* Raw-text segmentation: entity_extractor.py *)

RECURSIVE SpacesAt(_, _)
\* how many blanks s has in a row from position i on: what \s+ consumes there
SpacesAt(s, i) ==
    IF i <= Len(s) /\ CharAt(s, i) = " " THEN 1 + SpacesAt(s, i + 1) ELSE 0

\* s has the literal w at position i
LitAt(s, i, w) == i + Len(w) - 1 <= Len(s) /\ SubSeq(s, i, i + Len(w) - 1) = w

\* length of the match of \s+w\s+ at position i of s, 0 when there is none
WordMatch(s, i, w) ==
    With(SpacesAt(s, i), LAMBDA a :
        IF a > 0 /\ LitAt(s, i + a, w)
        THEN With(SpacesAt(s, i + a + Len(w)), LAMBDA b :
                IF b > 0 THEN a + Len(w) + b ELSE 0)
        ELSE 0)

\* length of the match of \s+and\s+(a|an|also)\s+ at position i of s, 0 when there is
\* none: the alternatives are tried in the order written
AndArticleMatch(s, i) ==
    With(WordMatch(s, i, "and"), LAMBDA n :
        IF n = 0 THEN 0
        ELSE LET Alt(w) == LitAt(s, i + n, w) /\ SpacesAt(s, i + n + Len(w)) > 0
                 Len_(w) == n + Len(w) + SpacesAt(s, i + n + Len(w))
             IN IF Alt("a") THEN Len_("a")
                ELSE IF Alt("an") THEN Len_("an")
                ELSE IF Alt("also") THEN Len_("also")
                ELSE 0)

\* length of the match of one of the three patterns of _segment_items at position i
MatchLen(pattern, s, i) ==
    CASE pattern = "and_article" -> AndArticleMatch(s, i)
      [] pattern = "also" -> WordMatch(s, i, "also")
      [] pattern = "and" -> WordMatch(s, i, "and")

RECURSIVE ReSubFrom(_, _, _)
\* re.sub(pattern, ' ||| ', s) from position i on: leftmost matches, none overlapping
ReSubFrom(pattern, s, i) ==
    IF i > Len(s) THEN ""
    ELSE IF CharAt(s, i) # " " THEN CharAt(s, i) \o ReSubFrom(pattern, s, i + 1)
    ELSE IF MatchLen(pattern, s, i) > 0
         THEN " ||| " \o ReSubFrom(pattern, s, i + MatchLen(pattern, s, i))
         ELSE " " \o ReSubFrom(pattern, s, i + 1)

ReSub(pattern, s) == ReSubFrom(pattern, s, 1)

RECURSIVE SplitOnFrom(_, _, _)
\* s.split(sep), cur being the piece read so far
SplitOnFrom(s, sep, cur) ==
    IF s = "" THEN <<cur>>
    ELSE IF LitAt(s, 1, sep)
         THEN <<cur>> \o SplitOnFrom(SubSeq(s, Len(sep) + 1, Len(s)), sep, "")
         ELSE SplitOnFrom(SubSeq(s, 2, Len(s)), sep, cur \o CharAt(s, 1))

SplitOn(s, sep) == SplitOnFrom(s, sep, "")

\* the pieces that have at least 3 words
RECURSIVE LongEnough(_)
LongEnough(segments) ==
    IF segments = <<>> THEN <<>>
    ELSE (IF Len(Split(Head(segments))) >= 3 THEN <<Head(segments)>> ELSE <<>>)
         \o LongEnough(Tail(segments))

\* _segment_items
_segment_items(text) ==
    With(ReSub("and", ReSub("also", ReSub("and_article", text))), LAMBDA text3 :
        With(SplitOn(text3, "|||"), LAMBDA pieces :
            With(LongEnough([k \in 1..Len(pieces) |-> Strip(pieces[k])]), LAMBDA segments :
                IF segments # <<>> THEN segments ELSE <<text3>>)))

----------------------------------------------------------------------------
(* Notifications of the server: main.py *)

\* q without its first x
RECURSIVE RemoveFirst(_, _)
RemoveFirst(q, x) ==
    IF q = <<>> THEN <<>>
    ELSE IF Head(q) = x THEN Tail(q)
    ELSE <<Head(q)>> \o RemoveFirst(Tail(q), x)

\* x in q
InList(x, q) == \E k \in 1..Len(q) : q[k] = x

\* the loop `for ws in disconnected: active_notification_websockets.remove(ws)`:
\* the list it leaves, the clients it removed, and the ValueError of list.remove
\* for a client that is not in the list
RECURSIVE RemoveDisconnected(_, _, _)
RemoveDisconnected(websockets, gone, removed) ==
    IF gone = <<>> THEN [err |-> "none", websockets |-> websockets, removed |-> removed]
    ELSE IF ~InList(Head(gone), websockets)
         THEN [err |-> "ValueError", websockets |-> websockets, removed |-> removed]
         ELSE RemoveDisconnected(RemoveFirst(websockets, Head(gone)), Tail(gone),
                                 Append(removed, Head(gone)))

\* the hour and minute set_time reads from request.time, or the exception of split,
\* int or datetime
ParseTime(time) ==
    LET time_parts == SplitOn(time, ":")
    IN IF PyIntOf(PStr(time_parts[1])).ok = FALSE THEN Raise("ValueError")
       ELSE IF Len(time_parts) < 2 THEN Raise("IndexError")
       ELSE IF PyIntOf(PStr(time_parts[2])).ok = FALSE THEN Raise("ValueError")
       ELSE LET hour == PyIntOf(PStr(time_parts[1])).val
                minute == PyIntOf(PStr(time_parts[2])).val
            IN IF hour > 23 \/ minute > 59 THEN Raise("ValueError")
               ELSE Ok([hour |-> hour, minute |-> minute])

\* check_and_generate_notifications returns a notification for this hour
check_and_generate_notifications(hour) ==
    \/ hour = 6
    \/ (hour >= 7 /\ hour < 10)
    \/ hour = 11
    \/ (hour >= 14 /\ hour < 16)
    \/ hour = 17
    \/ (hour >= 19 /\ hour < 22)
    \/ hour = 22

----------------------------------------------------------------------------
(* Live transcription: main.py *)

\* a transcript event of AWS with one result: its first alternative and is_partial
TranscriptEvent(transcript, is_partial) ==
    [transcript |-> transcript, is_partial |-> is_partial]

\* handle_transcript_event that queues every segment, partial or not
QueuesEverySegment(transcript_event) == <<PStr(transcript_event.transcript)>>

\* what handle_transcript_event puts on the transcript queue for an event
handle_transcript_event(transcript_event) ==
    IF ~transcript_event.is_partial THEN <<PStr(transcript_event.transcript)>> ELSE <<>>

\* one turn of the loop of assemble_transcript on a chunk that is not None
Assembled(full_transcript, text_chunk) == full_transcript \o " " \o text_chunk.s

----------------------------------------------------------------------------
(* Inputs of the model *)

\* longest candidate list handed to the Normalizer
MaxCandidates == 2

SourceTexts ==
    {"Large hot Mocha with boba and soft top and a rainbro please",
     "thank you can I get a kids not so hot with whip"}

\* a candidate as the language model writes it: product, size, temp, mods, qty
Candidate(product, size, temp, mods, qty) ==
    [product |-> product, size |-> size, temp |-> temp, mods |-> mods, qty |-> qty]

\* candidate items: well-formed ones, repeats that differ in case, modifier order or
\* modifier repetition, nicknames, fillers, the alternate key spellings, null tokens,
\* values of an unexpected type, and a phrase that starts with an article
CandidatePool ==
    {Candidate(PStr("mocha"), PStr("large"), PStr("hot"), StrList(<<"boba">>), PInt(1)),
     Candidate(PStr("Mocha"), PStr("large"), PStr("hot"), StrList(<<"boba">>), PInt(1)),
     Candidate(PStr("mocha"), PStr("large"), PStr("hot"), StrList(<<"boba", "boba">>), PInt(1)),
     Candidate(PStr("mocha"), PStr("large"), PStr("hot"), StrList(<<"soft top", "boba">>), PInt(1)),
     Candidate(PStr("mocha"), PStr("large"), PStr("hot"), StrList(<<"boba", "soft top">>), PInt(1)),
     Candidate(PStr("rainbro"), PyNone, PyNone, StrList(<<>>), PInt(2)),
     Candidate(PStr("thank"), PStr("null"), PyNone, StrList(<<>>), PInt(1)),
     Candidate(PStr("ok"), PyNone, PyNone, StrList(<<>>), PInt(1)),
     Candidate(PStr("golden eagle"), PStr("small"), PStr("iced"), StrList(<<>>), PInt(1)),
     Candidate(PStr("not so hot"), PStr("kids"), PyNone, StrList(<<"whip">>), PInt(1)),
     Candidate(PStr("mocha"), PStr(""), PStr("hot"), PStr("boba"), PyNone),
     Candidate(PStr("mocha"), PStr("large"), PStr("hot"), PList(<<PInt(1)>>), PInt(1)),
     Candidate(PStr("mocha"), PStr("large"), PStr("hot"), PList(<<PStr("boba"), PInt(1)>>), PInt(1)),
     Candidate(PStr("mocha"), PStr("large"), PStr("iced"), StrList(<<>>), PStr("two")),
     Candidate(PStr("a mocha"), PStr("large"), PStr("hot"), StrList(<<"boba">>), PInt(1)),
     [product_name |-> PStr("mocha"), size |-> PStr("medium"),
      temperature |-> PStr("double blended"), modifiers |-> StrList(<<"boba">>),
      quantity |-> PInt(0)]}

\* the sequences over S of length at most n
SeqsUpTo(S, n) == UNION {[1..k -> S] : k \in 0..n}

\* two catalog products: "101" has a modifier chain, "201" has none
MochaProduct == Product("Mocha", "101", 4750)

EagleProduct == Product("Golden Eagle", "201", 5500)

\* an item as the pipeline hands it to build_order
MatchedInput(product, base_price, size, modifiers, quantity) ==
    [product |-> product,
     product_id |-> product["chainproductid"],
     product_name |-> product["name"],
     base_price |-> base_price,
     size |-> size,
     temperature |-> PStr("iced"),
     modifiers |-> StrList(modifiers),
     quantity |-> quantity,
     match_confidence |-> PFloat(930),
     suggestions |-> <<>>,
     original_query |-> PStr(Lower(product["name"].s))]

\* an item with no catalog product
UnmatchedInput(phrase, size, suggestions, quantity) ==
    [product |-> PyNone,
     product_name |-> PStr(phrase),
     size |-> size,
     temperature |-> PyNone,
     modifiers |-> StrList(<<>>),
     quantity |-> quantity,
     suggestions |-> suggestions,
     original_query |-> PStr(phrase)]

\* the items build_order is given: matched ones of both products with an explicit
\* base price of 5.50, in several sizes, modifiers and quantities; one with no usable
\* base price, one with a quantity int() rejects; unmatched ones
OrderInputPool ==
    {MatchedInput(p, PFloat(5500), c[1], c[2], c[3]) :
        p \in {MochaProduct, EagleProduct},
        c \in {<<PStr("medium"), <<"soft top">>, PInt(2)>>,
               <<PStr("large"), <<"boba">>, PInt(1)>>,
               <<PStr("kids"), <<>>, PInt(1)>>,
               <<PyNone, <<"extra sweet", "oat milk">>, PInt(3)>>}}
    \cup {MatchedInput(MochaProduct, PFloat(0), PStr("small"), <<>>, PInt(1)),
          MatchedInput(EagleProduct, PFloat(5500), PStr("small"), <<>>, PStr("two")),
          UnmatchedInput("not so hot", PStr("kids"),
                         <<"hot cocoa", "build your own: hot cocoa">>, PInt(2)),
          UnmatchedInput("zzz", PyNone, <<>>, PInt(1))}

\* longest item list handed to build_order
MaxOrderItems == 2

\* catalog products with the price data _infer_base_price looks for: none; a flat
\* price beside a size map; a flat price of 0 beside a size map with keys in several
\* cases; variant records; variant records without a positive price
PricedProducts ==
    {MochaProduct,
     [price |-> PFloat(4250), prices |-> [large |-> PFloat(6000)]] @@ EagleProduct,
     [price |-> PInt(0),
      prices |-> [large |-> PFloat(5000), Large |-> PFloat(6000), Medium |-> PFloat(5750)]]
        @@ EagleProduct,
     [variants |-> <<[size |-> PStr("small 12oz"), price |-> PFloat(3500)],
                     [name |-> PStr("Large 24oz"), price |-> PFloat(6500)]>>] @@ EagleProduct,
     [variants |-> <<[size |-> PStr("large"), price |-> PInt(0)]>>] @@ EagleProduct}

\* base prices an item may carry: none, zero, 0.25 and 5.50
ItemBasePrices == {PyNone, PInt(0), PFloat(250), PFloat(5500)}

\* sizes an item may carry
ItemSizes == {PyNone, PStr("large"), PStr("Large"), PStr("medium"), PStr("kids")}

\* modifier phrases an item may carry: of the schema, of the default table, unknown
ItemModifiers == {<<>>, <<"boba">>, <<"Oat Milk", "extra sweet">>, <<"soft top", "whip">>}

\* single items whose price build_order has to resolve
PricedInputPool ==
    {MatchedInput(p, b, z, m, PInt(1)) :
        p \in PricedProducts, b \in ItemBasePrices, z \in ItemSizes, m \in ItemModifiers}

\* objects the language model may put in its array: items of the catalog, a
\* known-absent one, a nickname, a filler, one with no product, one whose modifier
\* is a number, one whose quantity is a word
ResponseItems ==
    {Candidate(PStr("mocha"), PStr("large"), PStr("hot"), StrList(<<"boba">>), PInt(1)),
     Candidate(PStr("golden eagle"), PStr("large"), PStr("hot"), StrList(<<"boba">>), PInt(1)),
     Candidate(PStr("not so hot"), PStr("kids"), PyNone, StrList(<<"whip">>), PInt(1)),
     Candidate(PStr("thank"), PStr("null"), PyNone, StrList(<<>>), PInt(1)),
     Candidate(PStr(""), PStr("large"), PyNone, StrList(<<>>), PInt(1)),
     Candidate(PStr("mocha"), PStr("large"), PStr("hot"), PList(<<PInt(1)>>), PInt(1)),
     Candidate(PStr("mocha"), PStr("large"), PStr("iced"), StrList(<<>>), PStr("two"))}

\* longest array of the language model
MaxResponseItems == 2

\* answers of the language model
Responses ==
    {[kind |-> "error", items |-> <<>>], [kind |-> "prose", items |-> <<>>]}
    \cup {[kind |-> "array", items |-> q] : q \in SeqsUpTo(ResponseItems, MaxResponseItems)}

\* what customers say to the pipeline
PipelineTexts ==
    {"can I get a large hot mocha with boba and a small iced golden eagle and a kids not so hot",
     "thank you can I get a kids not so hot with whip"}

\* texts handed to process_text; None is what a request without text gives
TextInputs == {PStr(s) : s \in PipelineTexts} \cup {PyNone}

\* stats dicts handed to process_audio: a transcription with its text, one without
StatsInputs == {[text |-> PStr(s)] : s \in PipelineTexts} \cup {[duration |-> PInt(3)]}

\* catalogs the menu loader may hand over: none, and two of the same size
CatalogPool ==
    {<<>>,
     <<MochaProduct, Product("White Mocha", "102", 5250)>>,
     <<EagleProduct, Product("Dark Chocolate Mocha", "202", 5250)>>}

\* the cache file a matcher may find: none, one left by an earlier catalog, a damaged one
CachePool ==
    {NoCache,
     CacheOf(<<"mocha", "white mocha">>),
     [exists |-> TRUE, readable |-> FALSE, names |-> <<>>]}

\* queries put to the matcher
QueryPool ==
    {"", "mocha", "Golden Eagle", "white chocolate mocha", "not so hot", " NSH ", "Not So Hot"}

\* thresholds: the pipeline's 0.40 and match_best's default 0.5, in thousandths
Thresholds == {400, 500}

\* calls of the matcher in one behaviour
MaxMatcherCalls == 2

\* catalogs whose products have contradictory colours in their names
RankCatalogPool ==
    {<<Product("Dark Chocolate Mocha", "202", 5250), Product("White Mocha", "102", 5250)>>,
     <<Product("Double Chocolate Mocha", "203", 5500), Product("White Mocha", "102", 5250)>>}

\* queries put to match, match_best and resolve_product when ranking is looked at
RankQueries ==
    {"", "white chocolate mocha", "Dark Mocha", "rainbro", "chocolate mocha", "Not So Hot"}

\* top_k of match: match_best's 1, and one that takes in every product
TopKs == {1, 2}

\* thresholds of match: one just above zero and the default 0.5, in thousandths
RankThresholds == {1, 500}

\* calls of the matcher in one behaviour when ranking is looked at
MaxRankCalls == 1

\* runs of one request in one behaviour
MaxRuns == 2

\* a product the menu files under categories
MochaOfCategory == [categories |-> StrList(<<"Mochas", "Hot Drinks">>)] @@ MochaProduct

\* the catalogs a restart of the service may load: those of CatalogPool, two of which
\* have the same size, and one of another size
ReloadCatalogs == CatalogPool \cup {<<MochaOfCategory>>}

\* queries put to a restarted matcher: none, the name of a product, a nickname
CacheQueries == {"", "Mocha", "white chocolate mocha"}

\* calls a restarted matcher serves in one behaviour
MaxCacheCalls == 1

\* category hints of match_with_category: none, one that is a category of a product
CategoryHints == {PyNone, PStr("mocha")}

----------------------------------------------------------------------------
(* State *)

\* most chunks a spoken text is put together from
MaxChunks == 3

\* what a spoken text is put together from: conjunctions, an article, a one-word and
\* a three-word order
TextChunks == {"and", "also", "a", "mocha", "large hot mocha"}

RECURSIVE JoinWords(_)
\* ' '.join(q)
JoinWords(q) ==
    IF q = <<>> THEN ""
    ELSE IF Len(q) = 1 THEN q[1]
    ELSE q[1] \o " " \o JoinWords(Tail(q))

\* the texts extract is given
SpokenTexts == {JoinWords(q) : q \in SeqsUpTo(TextChunks, MaxChunks)}

\* notification clients that may connect in one behaviour
MaxClients == 2

NotificationClients == 1..MaxClients

\* request.time of set_time: an hour with a notification, one without, no such hour,
\* not a time
TimeInputs == {"06:00", "03:30", "25:00", "noon"}

\* audio chunks a client sends in one session
MaxAudioChunks == 1

\* transcript events AWS delivers in one session
MaxEvents == 2

\* the events AWS may deliver: final segments and a partial one, each a text of
\* words without blanks at its ends
EventPool ==
    {TranscriptEvent("large mocha", FALSE), TranscriptEvent("with boba", FALSE),
     TranscriptEvent("large", TRUE)}

VARIABLES
    nPhase,     \* Normalizer call: "start", "returned" or "raised"
    nText,      \* original_text of the call
    nCands,     \* items of the call
    nUnique,    \* the items after _deduplicate
    nOut,       \* what _validate_and_score returned
    nRe         \* a returned item and its second canonicalization

normVars == <<nPhase, nText, nCands, nUnique, nOut, nRe>>

VARIABLES
    products,       \* the matcher's self.products, the catalog
    product_names,  \* the matcher's self.product_names
    embeddings,     \* the matcher's self.embeddings
    cacheFile,      \* data/menu/embeddings_cache.pkl
    oracle,         \* the similarities the external models have given so far
    mCalls,         \* number of matcher calls made
    mCall           \* the last call of the matcher and what it returned

matchVars == <<products, product_names, embeddings, cacheFile, oracle, mCalls, mCall>>

VARIABLES
    cPhase,     \* build_order call: "start", "returned" or "raised"
    cItems,     \* matched_items of the call
    cOrder,     \* the order build_order returned
    uuidCount   \* identifiers uuid4() has handed out

compVars == <<cPhase, cItems, cOrder, uuidCount>>

VARIABLES
    pc,               \* where the entry point is: "ready", "extract", "match", "done"
    pEntry,           \* the entry point called
    pText,            \* the text it works on
    pResponse,        \* what the language model answers during the call
    result,           \* the result dict
    pItems,           \* items of extract_with_confidence
    pIdx,             \* the item the matching loop is at
    pMatches,         \* what match_best returned for each item so far
    matched_items,
    unmatched_items,
    pCaught,          \* the exception the except clause caught, if any
    pPrev             \* earlier runs of the same request: how many, what the last returned

pipeVars == <<pc, pEntry, pText, pResponse, result, pItems, pIdx, pMatches,
              matched_items, unmatched_items, pCaught, pPrev>>

VARIABLES
    sPhase,     \* raw-text segmentation: "idle", "start" or "returned"
    sText,      \* the text extract is given
    sSegments   \* what _segment_items returned

segVars == <<sPhase, sText, sSegments>>

VARIABLES
    active_notification_websockets,   \* the list of connected clients
    wsState,        \* each client: "none", "open", "closed" (gone, handler not told yet)
                    \* or "finished" (websocket_notifications returned)
    wsRemoved,      \* how many times each client was removed from the list
    tPc,            \* set_time: "idle", "loop", "sending" or "done"
    tTime,          \* request.time
    tIdx,           \* how many clients the for loop of broadcast_notification took
    tSending,       \* the client whose send_json is awaited
    disconnected,   \* the list of that name
    tResponse       \* what set_time answered: status and the exception behind a 400

noteVars == <<active_notification_websockets, wsState, wsRemoved, tPc, tTime, tIdx,
              tSending, disconnected, tResponse>>

VARIABLES
    lClient,            \* the client of the session: "connected" or "disconnected"
    lSent,              \* audio chunks the client has sent
    audio_queue,
    transcript_queue,
    awsEvents,          \* the transcript events AWS has yet to deliver
    lArrived,           \* the events handle_transcript_event was called with
    lReader,            \* read_from_client: "running" or "done"
    lWriter,            \* write_to_aws: "running", "sending", "ending" or "done"
    lHandler,           \* handler.handle_events(): "running", "done" or "failed"
    lAggregator,        \* assemble_transcript: "running" or "done"
    full_transcript,
    lMain,              \* websocket_transcribe_live: "gather", "aggregate" or "closed"
    lEnded,             \* calls of input_stream.end_stream()
    lTexts              \* the texts process_text was called with

liveVars == <<lClient, lSent, audio_queue, transcript_queue, awsEvents, lArrived, lReader,
              lWriter, lHandler, lAggregator, full_transcript, lMain, lEnded, lTexts>>

\* the state of the components beside the order pipeline
sideVars == <<segVars, noteVars, liveVars>>

vars == <<normVars, matchVars, compVars, pipeVars, sideVars>>

\* raw-text segmentation not in use
SegmentIdle ==
    /\ sPhase = "idle"
    /\ sText = ""
    /\ sSegments = <<>>

NoAnswer == [status |-> "none", error |-> "none"]

\* no notification client, no set_time request
NotifyFresh ==
    /\ active_notification_websockets = <<>>
    /\ wsState = [c \in NotificationClients |-> "none"]
    /\ wsRemoved = [c \in NotificationClients |-> 0]
    /\ tTime = ""
    /\ tIdx = 0
    /\ tSending = 0
    /\ disconnected = <<>>
    /\ tResponse = NoAnswer

\* the notification endpoints not in use
NotifyIdle == tPc = "off" /\ NotifyFresh

\* a live session right after the four tasks were created, AWS about to deliver events
LiveFresh(events) ==
    /\ lSent = 0
    /\ audio_queue = <<>>
    /\ transcript_queue = <<>>
    /\ awsEvents = events
    /\ lArrived = <<>>
    /\ full_transcript = ""
    /\ lEnded = 0
    /\ lTexts = <<>>

\* no live transcription session
LiveIdle ==
    /\ lClient = "none"
    /\ lReader = "none"
    /\ lWriter = "none"
    /\ lHandler = "none"
    /\ lAggregator = "none"
    /\ lMain = "none"
    /\ LiveFresh(<<>>)

\* the components beside the order pipeline not in use
SideIdle == SegmentIdle /\ NotifyIdle /\ LiveIdle

\* the matcher object
Matcher == [products |-> products, product_names |-> product_names, embeddings |-> embeddings]

NoCall == [op |-> "none"]

NotRun == [src |-> <<>>, out |-> <<>>]

----------------------------------------------------------------------------
(* The Normalizer called on its own *)

\* FuzzyMenuMatcher.__init__ on a catalog, finding a cache file
MatcherInit ==
    /\ products \in CatalogPool
    /\ \E cache \in CachePool :
          LET built == _build_embeddings(products, cache)
          IN /\ product_names = built.product_names
             /\ embeddings = built.embeddings
             /\ cacheFile = built.cache
    /\ oracle = {}
    /\ mCalls = 0
    /\ mCall = NoCall

\* the Normalizer not in use
NormIdle ==
    /\ nPhase = "idle"
    /\ nText = ""
    /\ nCands = <<>>
    /\ nUnique = <<>>
    /\ nOut = <<>>
    /\ nRe = NotRun

\* a matcher nobody calls
MatcherIdle ==
    /\ products = <<>>
    /\ product_names = <<>>
    /\ embeddings = NoEmbeddings
    /\ cacheFile = NoCache
    /\ oracle = {}
    /\ mCalls = 0
    /\ mCall = NoCall

NoResponse == [kind |-> "none", items |-> <<>>]

NoException == "none"

\* no earlier run of the request
NoRuns == [runs |-> 0, matches |-> <<>>, items |-> <<>>]

\* no entry point in progress
PipelineFresh ==
    /\ pEntry = "none"
    /\ pText = PyNone
    /\ pResponse = NoResponse
    /\ result = <<>>
    /\ pItems = <<>>
    /\ pIdx = 0
    /\ pMatches = <<>>
    /\ matched_items = <<>>
    /\ unmatched_items = <<>>
    /\ pCaught = NoException
    /\ pPrev = NoRuns

\* a pipeline nobody calls
PipelineIdle == pc = "idle" /\ PipelineFresh

\* an Order Composer nobody calls
ComposerIdle ==
    /\ cPhase = "idle"
    /\ cItems = <<>>
    /\ cOrder = <<>>
    /\ uuidCount = 0

NormInit ==
    /\ SideIdle
    /\ MatcherIdle
    /\ ComposerIdle
    /\ PipelineIdle
    /\ nPhase = "start"
    /\ nText \in SourceTexts
    /\ nCands \in SeqsUpTo(CandidatePool, MaxCandidates)
    /\ nUnique = <<>>
    /\ nOut = <<>>
    /\ nRe = NotRun

\* a call of _validate_and_score(items, original_text, verbose)
ValidateAndScore ==
    /\ nPhase = "start"
    /\ LET unique == _deduplicate(nCands)
           validated == _validate_and_score(nCands, nText)
       IN /\ nUnique' = (IF unique.ok THEN unique.val ELSE <<>>)
          /\ nOut' = (IF validated.ok THEN validated.val ELSE <<>>)
          /\ nPhase' = (IF validated.ok THEN "returned" ELSE "raised")
    /\ UNCHANGED <<nText, nCands, nRe>>
    /\ UNCHANGED <<matchVars, compVars, pipeVars>>
    /\ UNCHANGED sideVars

\* _normalize_item applied again to an item the Normalizer returned
Renormalize ==
    /\ nPhase = "returned"
    /\ \E i \in 1..Len(nOut) :
          nRe' = [src |-> nOut[i], out |-> _normalize_item(nOut[i])]
    /\ UNCHANGED <<nPhase, nText, nCands, nUnique, nOut>>
    /\ UNCHANGED <<matchVars, compVars, pipeVars>>
    /\ UNCHANGED sideVars

NormNext == ValidateAndScore \/ Renormalize

SpecNorm == NormInit /\ [][NormNext]_vars

----------------------------------------------------------------------------
(* The Matcher called on its own *)

\* external models that may answer anything each time they are asked
Unrepeatable(query_lower, names, sims) == TRUE

\* sims is what the external models say of query_lower against each product name:
\* the same answer as before for a pair already asked
Consistent(query_lower, names, sims) ==
    \A i \in 1..Len(names) :
        /\ (query_lower = names[i]) <=> (sims[i] = SimIdentical)
        /\ \A o \in oracle : (o.query = query_lower /\ o.name = names[i]) => sims[i] = o.sim
        /\ \A j \in 1..Len(names) : names[i] = names[j] => sims[i] = sims[j]

\* the oracle after it answered for query_lower
Asked(query_lower, names, sims) ==
    oracle \cup {[query |-> query_lower, name |-> names[i], sim |-> sims[i]] :
                    i \in 1..Len(names)}

MatchInit ==
    /\ SideIdle
    /\ NormIdle
    /\ ComposerIdle
    /\ PipelineIdle
    /\ MatcherInit

\* a call matcher.match_best(query, threshold)
MatchBest ==
    /\ mCalls < MaxMatcherCalls
    /\ \E query \in QueryPool, threshold \in Thresholds :
       \E sims \in [1..Len(product_names) -> SimLevels \cup {SimIdentical}] :
          /\ Consistent(ScoredQuery(query), product_names, sims)
          /\ LET r == match_best(Matcher, query, threshold, sims)
             IN /\ mCall' = [op |-> "match_best", query |-> query, threshold |-> threshold,
                             ret |-> r.ret, scored |-> r.scored]
                /\ oracle' = IF r.scored
                             THEN Asked(ScoredQuery(query), product_names, sims)
                             ELSE oracle
    /\ mCalls' = mCalls + 1
    /\ UNCHANGED <<products, product_names, embeddings, cacheFile>>
    /\ UNCHANGED <<normVars, compVars, pipeVars>>
    /\ UNCHANGED sideVars

MatchNext == MatchBest

SpecMatch == MatchInit /\ [][MatchNext]_vars

----------------------------------------------------------------------------
(* match, match_best and resolve_product called on catalogs with contradictory colours *)

RankInit ==
    /\ SideIdle
    /\ NormIdle
    /\ ComposerIdle
    /\ PipelineIdle
    /\ products \in RankCatalogPool
    /\ \E cache \in CachePool :
          LET built == _build_embeddings(products, cache)
          IN /\ product_names = built.product_names
             /\ embeddings = built.embeddings
             /\ cacheFile = built.cache
    /\ oracle = {}
    /\ mCalls = 0
    /\ mCall = NoCall

\* a call matcher.match(query, top_k, threshold)
Match ==
    /\ mCalls < MaxRankCalls
    /\ \E query \in RankQueries, top_k \in TopKs, threshold \in RankThresholds :
       \E sims \in [1..Len(product_names) -> SimLevels \cup {SimIdentical}] :
          /\ Consistent(ScoredQuery(query), product_names, sims)
          /\ mCall' = [op |-> "match", query |-> query, top_k |-> top_k,
                       threshold |-> threshold,
                       ret |-> match(Matcher, query, top_k, threshold, sims),
                       scored |-> MatchScores(Matcher, query)]
          /\ oracle' = IF MatchScores(Matcher, query)
                       THEN Asked(ScoredQuery(query), product_names, sims)
                       ELSE oracle
    /\ mCalls' = mCalls + 1
    /\ UNCHANGED <<products, product_names, embeddings, cacheFile>>
    /\ UNCHANGED <<normVars, compVars, pipeVars>>
    /\ UNCHANGED sideVars

\* a call matcher.match_best(query, threshold) on one of these catalogs
RankBest ==
    /\ mCalls < MaxRankCalls
    /\ \E query \in RankQueries, threshold \in RankThresholds :
       \E sims \in [1..Len(product_names) -> SimLevels \cup {SimIdentical}] :
          /\ Consistent(ScoredQuery(query), product_names, sims)
          /\ LET r == match_best(Matcher, query, threshold, sims)
             IN /\ mCall' = [op |-> "match_best", query |-> query, threshold |-> threshold,
                             ret |-> r.ret, scored |-> r.scored]
                /\ oracle' = IF r.scored
                             THEN Asked(ScoredQuery(query), product_names, sims)
                             ELSE oracle
    /\ mCalls' = mCalls + 1
    /\ UNCHANGED <<products, product_names, embeddings, cacheFile>>
    /\ UNCHANGED <<normVars, compVars, pipeVars>>
    /\ UNCHANGED sideVars

\* a call matcher.resolve_product(customer_phrase), the resolver _load_variations stored
ResolveProduct ==
    /\ mCalls < MaxRankCalls
    /\ \E customer_phrase \in RankQueries :
          mCall' = [op |-> "resolve_product", query |-> customer_phrase,
                    ret |-> resolve_product(customer_phrase)]
    /\ mCalls' = mCalls + 1
    /\ UNCHANGED <<products, product_names, embeddings, cacheFile, oracle>>
    /\ UNCHANGED <<normVars, compVars, pipeVars>>
    /\ UNCHANGED sideVars

RankNext == Match \/ RankBest \/ ResolveProduct

SpecRank == RankInit /\ [][RankNext]_vars

----------------------------------------------------------------------------
(* The Matcher across restarts of the service, the cache file staying on disk *)

CacheInit ==
    /\ SideIdle
    /\ NormIdle
    /\ ComposerIdle
    /\ PipelineIdle
    /\ products \in ReloadCatalogs
    /\ \E cache \in CachePool :
          LET built == _build_embeddings(products, cache)
          IN /\ product_names = built.product_names
             /\ embeddings = built.embeddings
             /\ cacheFile = built.cache
    /\ oracle = {}
    /\ mCalls = 0
    /\ mCall = NoCall

\* the service starts again before it serves a call: FuzzyMenuMatcher.__init__ on the
\* catalog the menu loader now hands over, finding the cache file left on disk
Reinitialize ==
    /\ mCalls = 0
    /\ \E catalog \in ReloadCatalogs :
       \E built \in {_build_embeddings(catalog, cacheFile)} :
          /\ products' = catalog
          /\ product_names' = built.product_names
          /\ embeddings' = built.embeddings
          /\ cacheFile' = built.cache
    /\ UNCHANGED <<oracle, mCalls, mCall>>
    /\ UNCHANGED <<normVars, compVars, pipeVars>>
    /\ UNCHANGED sideVars

\* a call matcher.match(query) of the restarted matcher, top_k and threshold left at
\* their defaults 5 and 0.5
MatchReloaded ==
    /\ mCalls < MaxCacheCalls
    /\ \E query \in CacheQueries :
       \E sims \in [1..Len(product_names) -> SimLevels \cup {SimIdentical}] :
          /\ Consistent(ScoredQuery(query), product_names, sims)
          /\ mCall' = [op |-> "match", query |-> query, top_k |-> 5, threshold |-> 500,
                       ret |-> match(Matcher, query, 5, 500, sims),
                       scored |-> MatchScores(Matcher, query)]
          /\ oracle' = IF MatchScores(Matcher, query)
                       THEN Asked(ScoredQuery(query), product_names, sims)
                       ELSE oracle
    /\ mCalls' = mCalls + 1
    /\ UNCHANGED <<products, product_names, embeddings, cacheFile>>
    /\ UNCHANGED <<normVars, compVars, pipeVars>>
    /\ UNCHANGED sideVars

\* a call matcher.match_best(query) of the restarted matcher
MatchBestReloaded ==
    /\ mCalls < MaxCacheCalls
    /\ \E query \in CacheQueries :
       \E sims \in [1..Len(product_names) -> SimLevels \cup {SimIdentical}] :
          /\ Consistent(ScoredQuery(query), product_names, sims)
          /\ \E r \in {match_best(Matcher, query, 500, sims)} :
                /\ mCall' = [op |-> "match_best", query |-> query, threshold |-> 500,
                             ret |-> r.ret, scored |-> r.scored]
                /\ oracle' = IF r.scored
                             THEN Asked(ScoredQuery(query), product_names, sims)
                             ELSE oracle
    /\ mCalls' = mCalls + 1
    /\ UNCHANGED <<products, product_names, embeddings, cacheFile>>
    /\ UNCHANGED <<normVars, compVars, pipeVars>>
    /\ UNCHANGED sideVars

\* a call matcher.match_with_category(query, category_hint) of the restarted matcher
MatchWithCategory ==
    /\ mCalls < MaxCacheCalls
    /\ \E query \in CacheQueries, category_hint \in CategoryHints :
       \E sims \in [1..Len(product_names) -> SimLevels \cup {SimIdentical}] :
          /\ Consistent(ScoredQuery(query), product_names, sims)
          /\ mCall' = [op |-> "match_with_category", query |-> query,
                       category_hint |-> category_hint,
                       ret |-> match_with_category(Matcher, query, category_hint, sims),
                       scored |-> MatchScores(Matcher, query)]
          /\ oracle' = IF MatchScores(Matcher, query)
                       THEN Asked(ScoredQuery(query), product_names, sims)
                       ELSE oracle
    /\ mCalls' = mCalls + 1
    /\ UNCHANGED <<products, product_names, embeddings, cacheFile>>
    /\ UNCHANGED <<normVars, compVars, pipeVars>>
    /\ UNCHANGED sideVars

CacheNext == Reinitialize \/ MatchReloaded \/ MatchBestReloaded \/ MatchWithCategory

SpecCache == CacheInit /\ [][CacheNext]_vars

----------------------------------------------------------------------------
(* Raw-text segmentation called on its own *)

SegmentInit ==
    /\ NormIdle
    /\ MatcherIdle
    /\ ComposerIdle
    /\ PipelineIdle
    /\ NotifyIdle
    /\ LiveIdle
    /\ sPhase = "start"
    /\ sText \in SpokenTexts
    /\ sSegments = <<>>

\* the first step of extract(text): items = self._segment_items(text_lower)
SegmentItems ==
    /\ sPhase = "start"
    /\ sSegments' = _segment_items(Lower(sText))
    /\ sPhase' = "returned"
    /\ UNCHANGED sText
    /\ UNCHANGED <<normVars, matchVars, compVars, pipeVars>>
    /\ UNCHANGED <<noteVars, liveVars>>

SegmentNext == SegmentItems

SpecSegment == SegmentInit /\ [][SegmentNext]_vars

----------------------------------------------------------------------------
(* Notification clients and set_time on one event loop.  A coroutine runs alone    *)
(* from one await to the next; the steps below are those stretches.                *)

NotifyInit ==
    /\ NormIdle
    /\ MatcherIdle
    /\ ComposerIdle
    /\ PipelineIdle
    /\ SegmentIdle
    /\ LiveIdle
    /\ tPc = "idle"
    /\ NotifyFresh

\* websocket_notifications up to its first await after accept: the client is appended
Connect ==
    /\ \E c \in NotificationClients :
          /\ wsState[c] = "none"
          /\ wsState' = [wsState EXCEPT ![c] = "open"]
          /\ active_notification_websockets' = Append(active_notification_websockets, c)
    /\ UNCHANGED <<wsRemoved, tPc, tTime, tIdx, tSending, disconnected, tResponse>>
    /\ UNCHANGED <<normVars, matchVars, compVars, pipeVars, segVars, liveVars>>

\* a client goes away; its handler still waits in send_json or receive_json
ClientCloses ==
    /\ \E c \in NotificationClients :
          /\ wsState[c] = "open"
          /\ wsState' = [wsState EXCEPT ![c] = "closed"]
    /\ UNCHANGED <<active_notification_websockets, wsRemoved, tPc, tTime, tIdx, tSending,
                   disconnected, tResponse>>
    /\ UNCHANGED <<normVars, matchVars, compVars, pipeVars, segVars, liveVars>>

\* the handler of a client that went away resumes with WebSocketDisconnect and runs
\* its finally clause
HandlerFinishes ==
    /\ \E c \in NotificationClients :
          /\ wsState[c] = "closed"
          /\ wsState' = [wsState EXCEPT ![c] = "finished"]
          /\ IF InList(c, active_notification_websockets)
             THEN /\ active_notification_websockets'
                       = RemoveFirst(active_notification_websockets, c)
                  /\ wsRemoved' = [wsRemoved EXCEPT ![c] = @ + 1]
             ELSE UNCHANGED <<active_notification_websockets, wsRemoved>>
    /\ UNCHANGED <<tPc, tTime, tIdx, tSending, disconnected, tResponse>>
    /\ UNCHANGED <<normVars, matchVars, compVars, pipeVars, segVars, liveVars>>

\* set_time(request) up to its first await: the time is parsed and the notification
\* of the hour made; a request that broadcasts nothing is answered at once
SetTime ==
    /\ tPc \in {"idle", "done"}
    /\ \E time \in TimeInputs :
       \E parsed \in {ParseTime(time)} :
          /\ tTime' = time
          /\ IF ~parsed.ok
             THEN tPc' = "done" /\ tResponse' = [status |-> "400", error |-> parsed.err]
             ELSE IF ~check_and_generate_notifications(parsed.val.hour)
             THEN tPc' = "done" /\ tResponse' = [status |-> "success", error |-> "none"]
             ELSE tPc' = "loop" /\ tResponse' = NoAnswer
    /\ tIdx' = 0
    /\ tSending' = 0
    /\ disconnected' = <<>>
    /\ UNCHANGED <<active_notification_websockets, wsState, wsRemoved>>
    /\ UNCHANGED <<normVars, matchVars, compVars, pipeVars, segVars, liveVars>>

\* broadcast_notification takes the next client of the list and awaits its send_json
BroadcastSend ==
    /\ tPc = "loop"
    /\ tIdx < Len(active_notification_websockets)
    /\ tSending' = active_notification_websockets[tIdx + 1]
    /\ tIdx' = tIdx + 1
    /\ tPc' = "sending"
    /\ UNCHANGED <<active_notification_websockets, wsState, wsRemoved, tTime, disconnected,
                   tResponse>>
    /\ UNCHANGED <<normVars, matchVars, compVars, pipeVars, segVars, liveVars>>

\* the awaited send_json returns, or raises because the client is gone
SendReturns ==
    /\ tPc = "sending"
    /\ disconnected' = IF wsState[tSending] = "open" THEN disconnected
                       ELSE Append(disconnected, tSending)
    /\ tPc' = "loop"
    /\ UNCHANGED <<active_notification_websockets, wsState, wsRemoved, tTime, tIdx,
                   tSending, tResponse>>
    /\ UNCHANGED <<normVars, matchVars, compVars, pipeVars, segVars, liveVars>>

\* the for loop is over: the disconnected clients are removed and set_time answers,
\* with 400 if anything raised
BroadcastRemoves ==
    /\ tPc = "loop"
    /\ tIdx >= Len(active_notification_websockets)
    /\ \E r \in {RemoveDisconnected(active_notification_websockets, disconnected, <<>>)} :
          /\ active_notification_websockets' = r.websockets
          /\ wsRemoved' = [c \in NotificationClients |->
                              wsRemoved[c] + (IF InList(c, r.removed) THEN 1 ELSE 0)]
          /\ tResponse' = IF r.err = "none" THEN [status |-> "success", error |-> "none"]
                          ELSE [status |-> "400", error |-> r.err]
    /\ tPc' = "done"
    /\ UNCHANGED <<wsState, tTime, tIdx, tSending, disconnected>>
    /\ UNCHANGED <<normVars, matchVars, compVars, pipeVars, segVars, liveVars>>

NotifyNext ==
    \/ Connect \/ ClientCloses \/ HandlerFinishes
    \/ SetTime \/ BroadcastSend \/ SendReturns \/ BroadcastRemoves

SpecNotify == NotifyInit /\ [][NotifyNext]_vars

----------------------------------------------------------------------------
(* One session of websocket_transcribe_live: the client, AWS and the four tasks on  *)
(* one event loop.  The stream to AWS has been started.  A put on these unbounded   *)
(* queues does not wait, so a step runs up to the next await that does.             *)

LiveInit ==
    /\ NormIdle
    /\ MatcherIdle
    /\ ComposerIdle
    /\ PipelineIdle
    /\ SegmentIdle
    /\ NotifyIdle
    /\ lClient = "connected"
    /\ lReader = "running"
    /\ lWriter = "running"
    /\ lHandler = "running"
    /\ lAggregator = "running"
    /\ lMain = "gather"
    /\ \E events \in SeqsUpTo(EventPool, MaxEvents) : LiveFresh(events)

\* read_from_client receives bytes from the client and queues them
ReadFromClient ==
    /\ lReader = "running"
    /\ lClient = "connected"
    /\ lSent < MaxAudioChunks
    /\ lSent' = lSent + 1
    /\ audio_queue' = Append(audio_queue, PInt(lSent + 1))
    /\ UNCHANGED <<lClient, transcript_queue, awsEvents, lArrived, lReader, lWriter,
                   lHandler, lAggregator, full_transcript, lMain, lEnded, lTexts>>
    /\ UNCHANGED <<normVars, matchVars, compVars, pipeVars, segVars, noteVars>>

\* the client goes away
ClientDisconnects ==
    /\ lClient = "connected"
    /\ lClient' = "disconnected"
    /\ UNCHANGED <<lSent, audio_queue, transcript_queue, awsEvents, lArrived, lReader,
                   lWriter, lHandler, lAggregator, full_transcript, lMain, lEnded, lTexts>>
    /\ UNCHANGED <<normVars, matchVars, compVars, pipeVars, segVars, noteVars>>

\* receive_bytes raises, WebSocketDisconnect for a client that went away or another
\* exception for one that did not send bytes; read_from_client queues None and ends
ReaderStops ==
    /\ lReader = "running"
    /\ audio_queue' = Append(audio_queue, PyNone)
    /\ lReader' = "done"
    /\ UNCHANGED <<lClient, lSent, transcript_queue, awsEvents, lArrived, lWriter,
                   lHandler, lAggregator, full_transcript, lMain, lEnded, lTexts>>
    /\ UNCHANGED <<normVars, matchVars, compVars, pipeVars, segVars, noteVars>>

\* write_to_aws gets the next chunk from audio_stream_generator and awaits its
\* send_audio_event, or the generator is over and the finally clause is entered
WriterTakes ==
    /\ lWriter = "running"
    /\ audio_queue # <<>>
    /\ audio_queue' = Tail(audio_queue)
    /\ lWriter' = IF Head(audio_queue) = PyNone THEN "ending" ELSE "sending"
    /\ UNCHANGED <<lClient, lSent, transcript_queue, awsEvents, lArrived, lReader,
                   lHandler, lAggregator, full_transcript, lMain, lEnded, lTexts>>
    /\ UNCHANGED <<normVars, matchVars, compVars, pipeVars, segVars, noteVars>>

\* send_audio_event returns, or raises and the finally clause is entered
WriterSent ==
    /\ lWriter = "sending"
    /\ lWriter' \in {"running", "ending"}
    /\ UNCHANGED <<lClient, lSent, audio_queue, transcript_queue, awsEvents, lArrived,
                   lReader, lHandler, lAggregator, full_transcript, lMain, lEnded, lTexts>>
    /\ UNCHANGED <<normVars, matchVars, compVars, pipeVars, segVars, noteVars>>

\* the finally clause of write_to_aws: end_stream()
WriterEnds ==
    /\ lWriter = "ending"
    /\ lEnded' = lEnded + 1
    /\ lWriter' = "done"
    /\ UNCHANGED <<lClient, lSent, audio_queue, transcript_queue, awsEvents, lArrived,
                   lReader, lHandler, lAggregator, full_transcript, lMain, lTexts>>
    /\ UNCHANGED <<normVars, matchVars, compVars, pipeVars, segVars, noteVars>>

\* handle_events hands the next event of AWS to handle_transcript_event: a final
\* segment is queued, and the segment is sent to the client, which raises if the
\* client went away
HandleTranscriptEvent ==
    /\ lHandler = "running"
    /\ awsEvents # <<>>
    /\ awsEvents' = Tail(awsEvents)
    /\ lArrived' = Append(lArrived, Head(awsEvents))
    /\ transcript_queue' = transcript_queue \o handle_transcript_event(Head(awsEvents))
    /\ lHandler' = IF lClient = "connected" THEN "running" ELSE "failed"
    /\ UNCHANGED <<lClient, lSent, audio_queue, lReader, lWriter, lAggregator,
                   full_transcript, lMain, lEnded, lTexts>>
    /\ UNCHANGED <<normVars, matchVars, compVars, pipeVars, segVars, noteVars>>

\* AWS closes its output stream after the input stream was ended and every event
\* delivered; handle_events returns
HandlerDone ==
    /\ lHandler = "running"
    /\ awsEvents = <<>>
    /\ lEnded > 0
    /\ lHandler' = "done"
    /\ UNCHANGED <<lClient, lSent, audio_queue, transcript_queue, awsEvents, lArrived,
                   lReader, lWriter, lAggregator, full_transcript, lMain, lEnded, lTexts>>
    /\ UNCHANGED <<normVars, matchVars, compVars, pipeVars, segVars, noteVars>>

\* assemble_transcript gets a chunk: it is added to the text, or it is None and the
\* stripped text is returned
AssembleTranscript ==
    /\ lAggregator = "running"
    /\ transcript_queue # <<>>
    /\ transcript_queue' = Tail(transcript_queue)
    /\ IF Head(transcript_queue) = PyNone
       THEN lAggregator' = "done" /\ full_transcript' = Strip(full_transcript)
       ELSE /\ lAggregator' = "running"
            /\ full_transcript' = Assembled(full_transcript, Head(transcript_queue))
    /\ UNCHANGED <<lClient, lSent, audio_queue, awsEvents, lArrived, lReader, lWriter,
                   lHandler, lMain, lEnded, lTexts>>
    /\ UNCHANGED <<normVars, matchVars, compVars, pipeVars, segVars, noteVars>>

\* gather returns after the reader, the handler and the writer have; the end signal
\* is queued and the aggregator awaited
GatherReturns ==
    /\ lMain = "gather"
    /\ lReader = "done" /\ lHandler = "done" /\ lWriter = "done"
    /\ transcript_queue' = Append(transcript_queue, PyNone)
    /\ lMain' = "aggregate"
    /\ UNCHANGED <<lClient, lSent, audio_queue, awsEvents, lArrived, lReader, lWriter,
                   lHandler, lAggregator, full_transcript, lEnded, lTexts>>
    /\ UNCHANGED <<normVars, matchVars, compVars, pipeVars, segVars, noteVars>>

\* gather raises what the handler task raised; the except and finally clauses run
\* and the websocket is closed, the other tasks going on
GatherRaises ==
    /\ lMain = "gather"
    /\ lHandler = "failed"
    /\ lMain' = "closed"
    /\ lClient' = "disconnected"
    /\ UNCHANGED <<lSent, audio_queue, transcript_queue, awsEvents, lArrived, lReader,
                   lWriter, lHandler, lAggregator, full_transcript, lEnded, lTexts>>
    /\ UNCHANGED <<normVars, matchVars, compVars, pipeVars, segVars, noteVars>>

\* the aggregator has returned: process_text(final_text), the result is stored and
\* the websocket closed
ProcessFinalText ==
    /\ lMain = "aggregate"
    /\ lAggregator = "done"
    /\ lTexts' = Append(lTexts, full_transcript)
    /\ lMain' = "closed"
    /\ lClient' = "disconnected"
    /\ UNCHANGED <<lSent, audio_queue, transcript_queue, awsEvents, lArrived, lReader,
                   lWriter, lHandler, lAggregator, full_transcript, lEnded>>
    /\ UNCHANGED <<normVars, matchVars, compVars, pipeVars, segVars, noteVars>>

LiveNext ==
    \/ ReadFromClient \/ ClientDisconnects \/ ReaderStops
    \/ WriterTakes \/ WriterSent \/ WriterEnds
    \/ HandleTranscriptEvent \/ HandlerDone \/ AssembleTranscript
    \/ GatherReturns \/ GatherRaises \/ ProcessFinalText

SpecLive == LiveInit /\ [][LiveNext]_vars

\* the event loop runs every task that can run, and AWS answers the calls it gets
SpecLiveFair ==
    /\ SpecLive
    /\ WF_vars(ReaderStops)
    /\ WF_vars(WriterTakes)
    /\ WF_vars(WriterSent)
    /\ WF_vars(WriterEnds)

----------------------------------------------------------------------------
(* The Order Composer called on its own *)

ComposeInit ==
    /\ SideIdle
    /\ NormIdle
    /\ MatcherIdle
    /\ PipelineIdle
    /\ cPhase = "start"
    /\ cItems \in SeqsUpTo(OrderInputPool, MaxOrderItems)
    /\ cOrder = <<>>
    /\ uuidCount = 0

\* the identifiers a list of order lines used
IdsUsed(order_items) ==
    SumSeq([i \in 1..Len(order_items) |-> 1 + Len(order_items[i].child_items)])

\* a call builder.build_order(matched_items, customer_name="Voice Customer")
BuildOrder ==
    /\ cPhase = "start"
    /\ \E order \in {build_order(cItems, "Voice Customer", "", uuidCount)} :
          /\ cPhase' = (IF order.ok THEN "returned" ELSE "raised")
          /\ cOrder' = (IF order.ok THEN order.val ELSE <<>>)
          /\ uuidCount' = (IF order.ok THEN uuidCount + IdsUsed(order.val.items)
                           ELSE uuidCount)
    /\ UNCHANGED cItems
    /\ UNCHANGED <<normVars, matchVars, pipeVars>>
    /\ UNCHANGED sideVars

ComposeNext == BuildOrder

SpecCompose == ComposeInit /\ [][ComposeNext]_vars

----------------------------------------------------------------------------
(* The Order Composer called on one item whose price it has to resolve *)

PriceInit ==
    /\ SideIdle
    /\ NormIdle
    /\ MatcherIdle
    /\ PipelineIdle
    /\ cPhase = "start"
    /\ cItems \in {<<item>> : item \in PricedInputPool}
    /\ cOrder = <<>>
    /\ uuidCount = 0

SpecPrice == PriceInit /\ [][ComposeNext]_vars

----------------------------------------------------------------------------
(* The pipeline entry points: one request on a freshly built pipeline *)

\* threshold=0.40 of both entry points
PipelineThreshold == 400

PipeInit ==
    /\ SideIdle
    /\ NormIdle
    /\ ComposerIdle
    /\ MatcherInit
    /\ pc = "ready"
    /\ PipelineFresh

\* process_text(text): the result dict is made and the try block entered
ProcessText ==
    /\ pc = "ready"
    /\ \E text \in TextInputs, response \in Responses :
          /\ pText' = text
          /\ pResponse' = response
          /\ result' = NewResult([text |-> text, confidence |-> PFloat(1000),
                                  source |-> "text_input"])
    /\ pEntry' = "process_text"
    /\ pc' = "extract"
    /\ UNCHANGED <<pItems, pIdx, pMatches, matched_items, unmatched_items, pCaught, pPrev>>
    /\ UNCHANGED <<normVars, matchVars, compVars>>
    /\ UNCHANGED sideVars

\* process_audio(stats): the result dict is made and step 1 reads stats["text"]
ProcessAudio ==
    /\ pc = "ready"
    /\ \E stats \in StatsInputs, response \in Responses :
          /\ pResponse' = response
          /\ IF "text" \in DOMAIN stats
             THEN /\ pText' = stats["text"]
                  /\ result' = [NewResult(<<>>) EXCEPT !.transcription = [text |-> stats["text"]]]
                  /\ pCaught' = NoException
                  /\ pc' = "extract"
             ELSE /\ pText' = PyNone
                  /\ result' = Caught(NewResult(<<>>), "KeyError")
                  /\ pCaught' = "KeyError"
                  /\ pc' = "done"
    /\ pEntry' = "process_audio"
    /\ UNCHANGED <<pItems, pIdx, pMatches, matched_items, unmatched_items, pPrev>>
    /\ UNCHANGED <<normVars, matchVars, compVars>>
    /\ UNCHANGED sideVars

\* the extraction step of either entry point
Extract ==
    /\ pc = "extract"
    /\ \E extracted \in {extract_with_confidence(pText, pResponse)} :
          IF extracted.ok
          THEN /\ pItems' = extracted.val.items
               /\ result' = [result EXCEPT !.extraction =
                                [items |-> extracted.val.items,
                                 count |-> Len(extracted.val.items),
                                 confidence |-> PFloat(extracted.val.confidence)]]
               /\ pIdx' = 1
               /\ pc' = "match"
               /\ UNCHANGED pCaught
          ELSE /\ result' = Caught(result, extracted.err)
               /\ pCaught' = extracted.err
               /\ pc' = "done"
               /\ UNCHANGED <<pItems, pIdx>>
    /\ UNCHANGED <<pEntry, pText, pResponse, pMatches, matched_items, unmatched_items,
                   pPrev>>
    /\ UNCHANGED <<normVars, matchVars, compVars>>
    /\ UNCHANGED sideVars

\* one turn of the matching loop: match_best on the item, then the branch taken on
\* what it returned.  The sentence-transformer is outside this repository and may
\* raise while it embeds the query.
MatchItem ==
    /\ pc = "match"
    /\ pIdx <= Len(pItems)
    /\ \E sims \in [1..Len(product_names) -> SimLevels \cup {SimIdentical}],
          encoded \in BOOLEAN :
       \E item \in {pItems[pIdx]} :
          /\ Consistent(ScoredQuery(item["product_hint"].s), product_names, sims)
          /\ \E best \in {match_best(Matcher, item["product_hint"].s,
                                     PipelineThreshold, sims)} :
                /\ ~encoded => best.scored
                /\ IF encoded
                   THEN /\ mCall' = [op |-> "match_best", query |-> item["product_hint"].s,
                                     threshold |-> PipelineThreshold,
                                     ret |-> best.ret, scored |-> best.scored]
                        /\ oracle' = IF best.scored
                                     THEN Asked(ScoredQuery(item["product_hint"].s),
                                                product_names, sims)
                                     ELSE oracle
                        /\ pMatches' = Append(pMatches, best.ret)
                        /\ matched_items' =
                              IF HasProduct(best.ret)
                              THEN Append(matched_items, matched_item(item, best.ret))
                              ELSE matched_items
                        /\ unmatched_items' =
                              IF pEntry = "process_audio"
                              THEN unmatched_items \o AudioUnmatched(item, best.ret)
                              ELSE unmatched_items
                        /\ result' = [result EXCEPT !.flags =
                                         @ \o IF pEntry = "process_audio"
                                              THEN AudioFlags(item, best.ret)
                                              ELSE TextFlags(item, best.ret)]
                        /\ pIdx' = pIdx + 1
                        /\ UNCHANGED <<pc, pCaught>>
                   ELSE /\ result' = Caught(result, "RuntimeError")
                        /\ pCaught' = "RuntimeError"
                        /\ pc' = "done"
                        /\ UNCHANGED <<mCall, oracle, pMatches, matched_items,
                                       unmatched_items, pIdx>>
    /\ mCalls' = mCalls + 1
    /\ UNCHANGED <<pEntry, pText, pResponse, pItems, pPrev>>
    /\ UNCHANGED <<products, product_names, embeddings, cacheFile>>
    /\ UNCHANGED <<normVars, compVars>>
    /\ UNCHANGED sideVars

\* after the loop: result["matching"], then build_order on matched_items
ComposeOrder ==
    /\ pc = "match"
    /\ pIdx > Len(pItems)
    /\ \E order \in {build_order(matched_items,
                                 IF pEntry = "process_audio" THEN "Voice Customer" ELSE "",
                                 "", uuidCount)},
          matching \in {Matching(pEntry, matched_items, unmatched_items)} :
          /\ result' = IF order.ok
                       THEN [result EXCEPT !.matching = matching, !.order = order.val,
                                           !.success = TRUE]
                       ELSE Caught([result EXCEPT !.matching = matching], order.err)
          /\ pCaught' = (IF order.ok THEN pCaught ELSE order.err)
          /\ cPhase' = (IF order.ok THEN "returned" ELSE "raised")
          /\ cOrder' = (IF order.ok THEN order.val ELSE <<>>)
          /\ uuidCount' = (IF order.ok THEN uuidCount + IdsUsed(order.val.items)
                           ELSE uuidCount)
    /\ cItems' = matched_items
    /\ pc' = "done"
    /\ UNCHANGED <<pEntry, pText, pResponse, pItems, pIdx, pMatches, matched_items,
                   unmatched_items, pPrev>>
    /\ UNCHANGED <<normVars, matchVars>>
    /\ UNCHANGED sideVars

PipeNext == ProcessText \/ ProcessAudio \/ Extract \/ MatchItem \/ ComposeOrder

SpecPipeline == PipeInit /\ [][PipeNext]_vars

----------------------------------------------------------------------------
(* The same request put to the pipeline again *)

\* the entry point called again with the same text after a run that succeeded, the
\* language model answering with the same candidates; matcher, cache file and the
\* identifiers already handed out are as the earlier run left them
Resubmit ==
    /\ pc = "done"
    /\ result.success
    /\ pPrev.runs + 1 < MaxRuns
    /\ pPrev' = [runs |-> pPrev.runs + 1, matches |-> pMatches, items |-> result.order.items]
    /\ result' = IF pEntry = "process_audio"
                 THEN [NewResult(<<>>) EXCEPT !.transcription = [text |-> pText]]
                 ELSE NewResult([text |-> pText, confidence |-> PFloat(1000),
                                 source |-> "text_input"])
    /\ pc' = "extract"
    /\ pItems' = <<>>
    /\ pIdx' = 0
    /\ pMatches' = <<>>
    /\ matched_items' = <<>>
    /\ unmatched_items' = <<>>
    /\ pCaught' = NoException
    /\ UNCHANGED <<pEntry, pText, pResponse>>
    /\ UNCHANGED <<normVars, matchVars, compVars>>
    /\ UNCHANGED sideVars

RoundTripNext == PipeNext \/ Resubmit

SpecRoundTrip == PipeInit /\ [][RoundTripNext]_vars

----------------------------------------------------------------------------
(* Claims *)

\* x is one of the items of the sequence q
IsIn(x, q) == \E i \in 1..Len(q) : q[i] = x

\* the admission rule as the specification words it
Admissible(item) ==
    /\ Len(item["product_hint"].s) >= 3
    /\ item["product_hint"].s \notin
          {"thank", "please", "awesome", "great", "good", "fun", "course"}
    /\ item["confidence"].n >= 400

\* C7 (monotonic admission): a candidate the Normalizer processes is in the returned
\* sequence if and only if its product phrase has at least 3 characters, is not a
\* stoplist filler and its confidence is at least 0.4; every returned item is such a
\* candidate, so no returned item has a confidence below 0.4.
C7_MonotonicAdmission ==
    nPhase = "returned" =>
        /\ \A i \in 1..Len(nUnique) :
              LET scored == ScoredItem(nUnique[i], Lower(nText)).val
              IN IsIn(scored, nOut) <=> Admissible(scored)
        /\ \A j \in 1..Len(nOut) :
              /\ nOut[j]["confidence"].n >= 400
              /\ \E i \in 1..Len(nUnique) : ScoredItem(nUnique[i], Lower(nText)).val = nOut[j]

\* C7 witness: a call returned one item and dropped another whose phrase is long
\* enough and no filler, for its confidence alone
C7_Witness ==
    /\ nPhase = "returned"
    /\ Len(nOut) = 1
    /\ \E i \in 1..Len(nUnique) :
          LET scored == ScoredItem(nUnique[i], Lower(nText)).val
          IN /\ scored["confidence"].n < 400
             /\ Len(scored["product_hint"].s) >= 3
             /\ ~IsIn(scored, nOut)

\* the four components the specification deduplicates by, the modifiers as a set
ClaimKey(item) ==
    [product |-> Lower(StrOf(ProductField(item))),
     size |-> Get(item, "size"),
     temp |-> TempField(item),
     mods |-> LET mods == ModsField(item)
              IN IF IsList(mods) THEN {mods.l[i] : i \in 1..Len(mods.l)} ELSE {}]

SameKey(a, b) ==
    /\ ClaimKey(a).product = ClaimKey(b).product
    /\ PyEq(ClaimKey(a).size, ClaimKey(b).size)
    /\ PyEq(ClaimKey(a).temp, ClaimKey(b).temp)
    /\ ClaimKey(a).mods = ClaimKey(b).mods

\* C8 (deduplication): candidates with identical (lowercased product phrase, size,
\* temperature, modifier set), the set taken regardless of order and repetition,
\* collapse to one item, the first occurrence; candidates that differ in one of the
\* four are both kept.
C8_Deduplication ==
    nPhase = "returned" =>
        \A i \in 1..Len(nCands) :
            /\ Cardinality({k \in 1..Len(nUnique) : SameKey(nUnique[k], nCands[i])}) = 1
            /\ \A j \in 1..Len(nCands) :
                  (i < j /\ SameKey(nCands[i], nCands[j])
                         /\ \A h \in 1..(i - 1) : ~SameKey(nCands[h], nCands[i]))
                  => /\ IsIn(nCands[i], nUnique)
                     /\ nCands[j] # nCands[i] => ~IsIn(nCands[j], nUnique)

\* C9 (idempotence): _normalize_item applied to an item the Normalizer returned gives
\* the same product_hint, size, temperature, modifiers and quantity.
C9_Idempotent ==
    nRe # NotRun =>
        \A k \in {"product_hint", "size", "temperature", "modifiers", "quantity"} :
            nRe.out[k] = nRe.src[k]

\* the flags of the result
Flags == {result.flags[k] : k \in 1..Len(result.flags)}

\* the lines of the order of the result
OrderLines == {result.order.items[k] : k \in 1..Len(result.order.items)}

\* C1 (unmatched-item safety, end to end): in every successful run of process_text
\* or process_audio every extracted item has its line in the order, and an item for
\* which match_best returned no product (known-absent or None) appears as a line
\* with product_id null, unit_price 0 and clarification metadata.
C1_UnmatchedItemSafety ==
    (pc = "done" /\ result.success) =>
        /\ Len(result.order.items) = Len(result.extraction.items)
        /\ \A i \in 1..Len(result.extraction.items) :
              ~HasProduct(pMatches[i]) =>
                  \E line \in OrderLines :
                      /\ line.product_id = PyNone
                      /\ line.unit_price = 0
                      /\ line.name = result.extraction.items[i]["product_hint"]
                      /\ line.metadata.status = "requires_manual_selection"

\* C2 (flags enumerate per-item issues): in both entry points, an item whose
\* match_best result is known-absent has a flag {item, reason not_in_menu,
\* suggestions, action}; one whose result is None has a flag with reason no_match;
\* a matched one with (confidence + similarity)/2 < 0.75 has a flag with reason
\* low_confidence; no other reason appears and every flag carries an action.
C2_FlagsEnumerate ==
    pc \in {"match", "done"} =>
        /\ \A i \in 1..Len(pMatches) :
              /\ (~pMatches[i].none /\ ~pMatches[i].exists) =>
                    \E f \in Flags :
                        /\ f.reason = "not_in_menu"
                        /\ f.item = pItems[i]["product_hint"]
                        /\ f.suggestions = pMatches[i].suggestions
                        /\ "action" \in DOMAIN f
              /\ pMatches[i].none =>
                    \E f \in Flags :
                        /\ f.reason = "no_match"
                        /\ f.item = pItems[i]["product_hint"]
              /\ (HasProduct(pMatches[i])
                  /\ pItems[i]["confidence"].n + pMatches[i].similarity < 1500) =>
                    \E f \in Flags :
                        /\ f.reason = "low_confidence"
                        /\ f.item = pMatches[i].product_name
        /\ \A f \in Flags :
              /\ f.reason \in {"low_confidence", "not_in_menu", "no_match"}
              /\ "action" \in DOMAIN f

\* the keys of the result of an entry point
ResultSections ==
    {"success", "error", "transcription", "extraction", "matching", "order", "flags"}

\* C3 (the entry points never raise): an exception of the extraction, the matching
\* or the composition ends the call with success false and error the exception's
\* message; success true is returned only when every stage completed, and then
\* error is null and order is the composed order; the result always has the
\* sections transcription, extraction, matching, order, flags.
C3_NeverRaises ==
    /\ pc \in {"extract", "match", "done"} => DOMAIN result = ResultSections
    /\ pc = "done" =>
          /\ pCaught # NoException =>
                /\ result.success = FALSE
                /\ result.error = PStr(pCaught)
          /\ result.success =>
                /\ pCaught = NoException
                /\ result.error = PyNone
                /\ result.extraction # <<>>
                /\ Len(pMatches) = Len(pItems)
                /\ result.matching # <<>>
                /\ cPhase = "returned"
                /\ result.order = cOrder
                /\ result.order # <<>>
          /\ pCaught = NoException => result.success

\* C3 witness: the composition raised after the extraction and the matching had
\* completed, and the call returned success false with the error and no order
C3_Witness ==
    /\ pc = "done"
    /\ pCaught = "ValueError"
    /\ result.extraction # <<>>
    /\ result.matching # <<>>
    /\ result.order = <<>>
    /\ result.success = FALSE
    /\ result.error = PStr("ValueError")

\* the input has no matched product
Unmatched(item) == NoProduct(GetD(item, "product", PyNone))

\* C4 (one line per input): build_order returns exactly one line per input item, in
\* input order; the line of an input with no matched product is a placeholder with
\* product_id null, unit_price 0, status "requires_manual_selection" and the input's
\* original phrase and suggestions; the line of a matched input carries its product;
\* metadata.item_count is the number of inputs.
C4_OneLinePerInput ==
    cPhase = "returned" =>
        /\ Len(cOrder.items) = Len(cItems)
        /\ cOrder.metadata.item_count = Len(cItems)
        /\ \A i \in 1..Len(cItems) :
              IF Unmatched(cItems[i])
              THEN /\ cOrder.items[i].product_id = PyNone
                   /\ cOrder.items[i].unit_price = 0
                   /\ cOrder.items[i].metadata.status = "requires_manual_selection"
                   /\ cOrder.items[i].metadata.original_query = cItems[i]["original_query"]
                   /\ cOrder.items[i].metadata.suggestions = cItems[i]["suggestions"]
                   /\ cOrder.items[i].name = cItems[i]["product_name"]
              ELSE /\ cOrder.items[i].product_id = cItems[i]["product_id"]
                   /\ cOrder.items[i].name = cItems[i]["product_name"]

\* C4 witness: an order returned for a matched input followed by an unmatched one
\* that has suggestions
C4_Witness ==
    /\ cPhase = "returned"
    /\ Len(cItems) = 2
    /\ ~Unmatched(cItems[1])
    /\ Unmatched(cItems[2])
    /\ cOrder.items[2].metadata.suggestions # <<>>
    /\ cOrder.items[2].product_id = PyNone

\* the sum over the lines of unit_price times quantity
LineTotals(order_items) ==
    SumSeq([i \in 1..Len(order_items) |->
               order_items[i].unit_price * order_items[i].quantity.n])

\* C5 (order total): subtotal = total = the sum over all lines of unit_price times
\* quantity, rounded to cents; each unit_price is itself in whole cents and a
\* placeholder line contributes 0.
C5_OrderTotal ==
    cPhase = "returned" =>
        /\ cOrder.subtotal = RoundCents(LineTotals(cOrder.items))
        /\ cOrder.total = cOrder.subtotal
        /\ \A i \in 1..Len(cOrder.items) :
              /\ cOrder.items[i].unit_price % 10 = 0
              /\ Unmatched(cItems[i]) => cOrder.items[i].unit_price = 0

\* C5 witness: an order of a placeholder line of quantity 2 and a matched line of
\* quantity 2 whose total is twice the matched unit price
C5_Witness ==
    /\ cPhase = "returned"
    /\ Len(cItems) = 2
    /\ Unmatched(cItems[1]) /\ cOrder.items[1].quantity = PInt(2)
    /\ ~Unmatched(cItems[2]) /\ cOrder.items[2].quantity = PInt(2)
    /\ cOrder.total = 2 * cOrder.items[2].unit_price
    /\ cOrder.total > 0

\* the price pieces of a matched input as the Order Composer resolves them
PricePieces(item, line) ==
    [base |-> BasePrice(item),
     size |-> _get_size_price(Get(item, "size"),
                              get_modifiers_for_product(line.product_id)),
     mods |-> SumSeq([j \in 1..Len(line.child_items) |-> line.child_items[j].unit_price])]

\* the input of the worked example: base 5.50, medium on a product whose schema has
\* no size group, soft top, quantity 2
IsExample(item) ==
    /\ ~Unmatched(item)
    /\ item["product_id"] = PStr("201")
    /\ item["base_price"] = PFloat(5500)
    /\ item["size"] = PStr("medium")
    /\ item["modifiers"] = StrList(<<"soft top">>)
    /\ item["quantity"] = PInt(2)

\* the worked example: unit_price 6.50 and 13.00 of the order total
ExampleHolds ==
    /\ \A i \in 1..Len(cItems) :
          IsExample(cItems[i]) =>
              /\ cOrder.items[i].unit_price = 6500
              /\ cOrder.items[i].pricing_breakdown.size_adjustment = 500
              /\ cOrder.items[i].pricing_breakdown.modifiers_total = 500
    /\ (Len(cItems) = 1 /\ IsExample(cItems[1])) => cOrder.total = 13000

\* C6 as stated (price composition): for every matched line the breakdown's total is
\* base_price + size_adjustment + modifiers_total and is the unit_price, and the
\* worked example gives 6.50 and 13.00.
C6_PriceComposition ==
    cPhase = "returned" =>
        /\ \A i \in 1..Len(cItems) :
              ~Unmatched(cItems[i]) =>
                 LET b == cOrder.items[i].pricing_breakdown
                 IN /\ b.total = b.base_price + b.size_adjustment + b.modifiers_total
                    /\ b.total = cOrder.items[i].unit_price
        /\ ExampleHolds

\* C6 amended: for every matched line, unit_price and the breakdown's total are the
\* sum base + size adjustment + modifier prices rounded to cents once; each field of
\* the breakdown is its own piece rounded to cents, so the fields add up to the
\* total when every piece is in whole cents; the worked example gives 6.50 and 13.00.
C6_PriceCompositionRounded ==
    cPhase = "returned" =>
        /\ \A i \in 1..Len(cItems) :
              ~Unmatched(cItems[i]) =>
                 LET b == cOrder.items[i].pricing_breakdown
                     p == PricePieces(cItems[i], cOrder.items[i])
                 IN /\ cOrder.items[i].unit_price = RoundCents(p.base + p.size + p.mods)
                    /\ b.total = cOrder.items[i].unit_price
                    /\ b.base_price = RoundCents(p.base)
                    /\ b.size_adjustment = RoundCents(p.size)
                    /\ b.modifiers_total = RoundCents(p.mods)
                    /\ (p.base % 10 = 0 /\ p.size % 10 = 0 /\ p.mods % 10 = 0)
                          => b.total = b.base_price + b.size_adjustment + b.modifiers_total
        /\ ExampleHolds

\* C6 witness: the worked example composed alone: unit_price 6.50, order total 13.00
C6_Witness ==
    /\ cPhase = "returned"
    /\ Len(cItems) = 1
    /\ IsExample(cItems[1])
    /\ cOrder.items[1].unit_price = 6500
    /\ cOrder.total = 13000

\* the query as the known-nonexistent table is asked: lowercased and trimmed
KnownAbsent(query) == Strip(Lower(query)) \in {"not so hot", "nsh"}

\* C10 (known-absent short-circuit): match_best on a query whose lowercased, trimmed
\* form is in the known-nonexistent table returns product null, exists false and the
\* table's non-empty suggestions, and scores nothing during the call, whatever the
\* catalog and the embeddings; it returns None only for a query that is not
\* known-absent.
C10_KnownAbsentShortCircuit ==
    /\ mCall.op = "match_best" =>
          /\ KnownAbsent(mCall.query) =>
                /\ ~mCall.ret.none
                /\ mCall.ret.product = PyNone
                /\ mCall.ret.exists = FALSE
                /\ mCall.ret.suggestions = UNKNOWN_PRODUCTS[Strip(Lower(mCall.query))]
                /\ mCall.ret.suggestions # <<>>
                /\ ~mCall.scored
          /\ mCall.ret.none => ~KnownAbsent(mCall.query)
    /\ \A o \in oracle : ~KnownAbsent(o.query)

\* C10 witness: a matcher with a catalog and embeddings was asked " NSH " and
\* answered that it does not exist
C10_Witness ==
    /\ mCall.op = "match_best"
    /\ mCall.query = " NSH "
    /\ products # <<>>
    /\ embeddings # NoEmbeddings
    /\ mCall.ret.exists = FALSE
    /\ ~mCall.scored

\* C11: resolve_product returns (canonical, true, []) for a phrase whose case-folded,
\* trimmed form is in the alias table, (phrase, false, suggestions) for one in the
\* known-nonexistent table, and (phrase, true, []) otherwise, the phrase being the one
\* it was given
C11_ResolverContract ==
    mCall.op = "resolve_product" =>
        LET phrase == mCall.query
            folded == Strip(Lower(phrase))
        IN IF folded \in DOMAIN PRODUCT_VARIATIONS
           THEN mCall.ret = [resolved_name |-> PRODUCT_VARIATIONS[folded], exists |-> TRUE,
                             suggestions |-> <<>>]
           ELSE IF folded \in DOMAIN UNKNOWN_PRODUCTS
           THEN mCall.ret = [resolved_name |-> phrase, exists |-> FALSE,
                             suggestions |-> UNKNOWN_PRODUCTS[folded]]
           ELSE mCall.ret = [resolved_name |-> phrase, exists |-> TRUE,
                             suggestions |-> <<>>]

\* what the external models said of the pair (query_lower, name)
SimOf(query_lower, name) ==
    (CHOOSE o \in oracle : o.query = query_lower /\ o.name = name).sim

\* the blended score the last call gave the product at index i, in thousandths
ScoreOf(i) ==
    combined_score(ScoredQuery(mCall.query), product_names[i],
                   SimOf(ScoredQuery(mCall.query), product_names[i]))

\* the catalog index of a product
IndexOf(product) == CHOOSE i \in 1..Len(products) : products[i] = product

\* product i ranks before product j: a higher score, or the same score and earlier in
\* the catalog
RanksBefore(i, j) ==
    ScoreOf(i) > ScoreOf(j) \/ (ScoreOf(i) = ScoreOf(j) /\ i < j)

\* product i is one of the top_k products of the ranking
InTop(i, top_k) ==
    Cardinality({j \in 1..Len(products) : RanksBefore(j, i)}) < top_k

\* C12: match returns exactly the products among the top_k of the ranking whose score
\* reaches the threshold, by descending blended score, products of equal score in
\* catalog order; match_best returns the first product of the ranking, and None when
\* no product reaches the threshold
C12_Ranking ==
    /\ (mCall.op = "match" /\ mCall.scored) =>
          /\ \A k \in 1..(Len(mCall.ret) - 1) :
                RanksBefore(IndexOf(mCall.ret[k].product), IndexOf(mCall.ret[k + 1].product))
          /\ {IndexOf(mCall.ret[k].product) : k \in 1..Len(mCall.ret)}
                = {i \in 1..Len(products) :
                      InTop(i, mCall.top_k) /\ ScoreOf(i) >= mCall.threshold}
    /\ (mCall.op = "match_best" /\ mCall.scored) =>
          IF \A i \in 1..Len(products) : ScoreOf(i) < mCall.threshold
          THEN mCall.ret = MatchNone
          ELSE /\ mCall.ret # MatchNone
               /\ InTop(IndexOf(mCall.ret.product), 1)

\* the whitespace-separated tokens of a string
Tokens(str) == {Split(str)[i] : i \in 1..Len(Split(str))}

\* the penalty the contradiction rule names for a canonicalized query and a candidate
\* name, in thousandths
ClaimedPenalty(query_lower, name) ==
    IF "white" \in Tokens(query_lower) /\ Contains("dark", name) THEN -1000
    ELSE IF "dark" \in Tokens(query_lower) /\ Contains("white", name) THEN -1000
    ELSE IF "white" \in Tokens(query_lower) /\ Contains("double chocolate", name) THEN -800
    ELSE 0

\* the records the last call of match or match_best returned
Returned ==
    IF mCall.op = "match" THEN {mCall.ret[k] : k \in 1..Len(mCall.ret)}
    ELSE IF mCall.op = "match_best" /\ mCall.scored /\ mCall.ret # MatchNone THEN {mCall.ret}
    ELSE {}

\* the name the matcher scored a returned record's product under
ScoredName(r) == product_names[IndexOf(r.product)]

WithoutIds(line) ==
    [line EXCEPT !.item_id = 0,
                 !.child_items = [k \in 1..Len(@) |-> [@[k] EXCEPT !.item_id = 0]]]

\* the identifiers of a list of order lines
IdsOf(order_items) ==
    UNION {{order_items[i].item_id}
           \cup {order_items[i].child_items[k].item_id :
                    k \in 1..Len(order_items[i].child_items)} : i \in 1..Len(order_items)}

\* a run of a request that ran before has succeeded again
RanTwice == pc = "done" /\ result.success /\ pPrev.runs > 0

MalformedCandidate(c) ==
    \/ ~Truthy(Get(c, "product"))
    \/ ~IsList(Get(c, "mods"))
    \/ \E k \in 1..Len(Get(c, "mods").l) : ~IsStr(Get(c, "mods").l[k])

\* an answer of the language model with nothing well-formed in it: the call failed, no
\* JSON, an empty array, or malformed candidates only
MalformedResponse(response) ==
    \/ response.kind # "array"
    \/ \A k \in 1..Len(response.items) : MalformedCandidate(response.items[k])

\* C15: a run on a text whose candidate data is malformed or empty ends with
\* success = true and zero extracted items
C15_ExtractionErrorsRecovered ==
    (pc = "done" /\ IsStr(pText) /\ MalformedResponse(pResponse)) =>
        /\ result.success = TRUE
        /\ result.extraction # <<>>
        /\ result.extraction.items = <<>>

\* how often the modifier x is in a modifiers list
Occurrences(x, mods) == Cardinality({k \in 1..Len(mods.l) : mods.l[k] = PStr(x)})

\* C16: a candidate whose temperature is "double blended" comes out of the Normalizer
\* with temperature "blended" and with "double blended" exactly once in its modifiers
\* (when no candidate was filtered out, item i of the output is candidate i)
C16_DoubleBlended ==
    (nPhase = "returned" /\ Len(nOut) = Len(nUnique)) =>
        \A i \in 1..Len(nUnique) :
            TempField(nUnique[i]) = PStr("double blended") =>
                /\ nOut[i]["temperature"] = PStr("blended")
                /\ Occurrences("double blended", nOut[i]["modifiers"]) = 1

\* C17: whenever match_best scores a query against the catalog, the phrase it has the
\* external models compare with the product names is resolve_product's canonical name
\* for the query
C17_AliasAgreement ==
    [][(mCall'.op = "match_best" /\ mCall'.scored) =>
          \A o \in oracle' \ oracle :
              o.query = resolve_product(mCall'.query).resolved_name]_vars

\* step (1) of the chain: the product's flat price when it is a number > 0; a step
\* gives <<price>> when it succeeds and << >> when it fails
FlatStep(product) ==
    IF PositiveNumber(Get(product, "price")) THEN <<NumVal(product["price"])>> ELSE <<>>

\* step (2): the size-keyed maps, each looked up by the exact, the lowercase and the
\* title-case size
MapStep(product, size) ==
    IF ~Truthy(size) THEN <<>>
    ELSE LET maps == <<"prices", "size_prices", "price_by_size">>
             keys == <<StrOf(size), Lower(StrOf(size)), Title(StrOf(size))>>
             lookups == [n \in 1..9 |-> <<maps[((n - 1) \div 3) + 1], keys[((n - 1) % 3) + 1]>>]
             hits == SelectSeq(lookups, LAMBDA mk :
                        /\ mk[1] \in DOMAIN product
                        /\ mk[2] \in DOMAIN product[mk[1]]
                        /\ PositiveNumber(product[mk[1]][mk[2]]))
         IN IF hits = <<>> THEN <<>> ELSE <<NumVal(product[hits[1][1]][hits[1][2]])>>

\* step (3): the first variant record with a price > 0 whose size or name contains the
\* size token; sizeless tells whether a record qualifies when the item has no size
VariantStep(product, size, sizeless) ==
    LET lists == <<"variants", "options", "items">>
        Qualifies(v) ==
            /\ PositiveNumber(Get(v, "price"))
            /\ IF Truthy(size)
               THEN Contains(Lower(StrOf(size)),
                             Lower(Or(Or(Get(v, "size"), Get(v, "name")), PStr("")).s))
               ELSE sizeless
        hits == {ab \in UNION {{<<a, b>> : b \in 1..Len(product[lists[a]])} :
                                  a \in {c \in 1..3 : lists[c] \in DOMAIN product}} :
                    Qualifies(product[lists[ab[1]]][ab[2]])}
        first == CHOOSE ab \in hits :
                    \A cd \in hits : ab[1] < cd[1] \/ (ab[1] = cd[1] /\ ab[2] <= cd[2])
    IN IF hits = {} THEN <<>> ELSE <<NumVal(product[lists[first[1]]][first[2]]["price"])>>

\* the base price the chain resolves for an item: its own price when numeric and > 0,
\* else the first step that succeeds, else the default
ChainBasePrice(item, sizeless) ==
    IF PositiveNumber(Get(item, "base_price")) THEN NumVal(item["base_price"])
    ELSE (FlatStep(item["product"]) \o MapStep(item["product"], Get(item, "size"))
          \o VariantStep(item["product"], Get(item, "size"), sizeless)
          \o <<DefaultBasePrice>>)[1]

\* C18: the base price of a matched line is the item's own price when numeric and > 0,
\* else the first that succeeds of the flat price, the size map, the first variant
\* record whose size or name contains the size token, the default 5.50; it is > 0
C18_BasePriceChain ==
    cPhase = "returned" =>
        \A i \in 1..Len(cItems) :
            ~Unmatched(cItems[i]) =>
                /\ cOrder.items[i].pricing_breakdown.base_price
                      = RoundCents(ChainBasePrice(cItems[i], FALSE))
                /\ cOrder.items[i].pricing_breakdown.base_price > 0

\* C18 amended: as C18, and for an item with no size the variant step takes the first
\* variant record with a price > 0, whatever its size or name
C18_BasePriceChainSizeless ==
    cPhase = "returned" =>
        \A i \in 1..Len(cItems) :
            ~Unmatched(cItems[i]) =>
                /\ cOrder.items[i].pricing_breakdown.base_price
                      = RoundCents(ChainBasePrice(cItems[i], TRUE))
                /\ cOrder.items[i].pricing_breakdown.base_price > 0

\* a line whose base price came from the second variant record: the item carries no
\* price of its own, its product has neither a flat price nor a size map
C18_Witness ==
    /\ cPhase = "returned"
    /\ ~PositiveNumber(Get(cItems[1], "base_price"))
    /\ cItems[1]["size"] = PStr("large")
    /\ "variants" \in DOMAIN cItems[1]["product"]
    /\ FlatStep(cItems[1]["product"]) = <<>>
    /\ MapStep(cItems[1]["product"], cItems[1]["size"]) = <<>>
    /\ cOrder.items[1].pricing_breakdown.base_price = 6500

\* the schema options whose name contains the phrase or is contained in it (case
\* aside), as indices into the options of the product's schema
SchemaHits(phrase, options) ==
    {n \in 1..Len(options) :
        \/ Contains(Lower(phrase), Lower(options[n].option.name))
        \/ Contains(Lower(options[n].option.name), Lower(phrase))}

\* the price and display name the modifier rule gives a phrase
RulePricing(phrase, options) ==
    LET hits == SchemaHits(phrase, options)
    IN IF hits # {}
       THEN LET o == options[CHOOSE n \in hits : \A m \in hits : n <= m].option
            IN [price |-> o.price_adjustment, name |-> o.name]
       ELSE [price |-> IF Lower(phrase) \in DOMAIN modifier_prices
                       THEN modifier_prices[Lower(phrase)]
                       ELSE DefaultModifierPrice,
             name |-> Title(phrase)]

\* the child lines of line are one per modifier phrase of item, in request order, each
\* priced and named by the rule
ChildLinesFollowRule(item, line) ==
    LET phrases == item["modifiers"].l
        options == OptionsOf(get_modifiers_for_product(line.product_id))
    IN /\ Len(line.child_items) = Len(phrases)
       /\ \A k \in 1..Len(phrases) :
             LET ruled == RulePricing(phrases[k].s, options)
             IN /\ line.child_items[k].unit_price = ruled.price
                /\ line.child_items[k].name = ruled.name
                /\ line.child_items[k].item_type = "modifier"

\* the sum of the prices of the child lines of a line
ChildTotal(line) ==
    SumSeq([k \in 1..Len(line.child_items) |-> line.child_items[k].unit_price])

\* C19: each modifier phrase gets exactly one child line, in request order, priced by
\* the first schema option whose name contains the phrase or is contained in it, else
\* by the default table, else 0.50, with a title-cased name when priced outside the
\* schema; modifiers_total is the sum of the child lines' prices
C19_ModifierPricing ==
    cPhase = "returned" =>
        \A i \in 1..Len(cItems) :
            ~Unmatched(cItems[i]) =>
                /\ ChildLinesFollowRule(cItems[i], cOrder.items[i])
                /\ cOrder.items[i].pricing_breakdown.modifiers_total
                      = ChildTotal(cOrder.items[i])

\* C19 amended: as C19, with modifiers_total the sum of the child lines' prices rounded
\* to cents
C19_ModifierPricingRounded ==
    cPhase = "returned" =>
        \A i \in 1..Len(cItems) :
            ~Unmatched(cItems[i]) =>
                /\ ChildLinesFollowRule(cItems[i], cOrder.items[i])
                /\ cOrder.items[i].pricing_breakdown.modifiers_total
                      = RoundCents(ChildTotal(cOrder.items[i]))

\* a line with two child lines, the first priced by the schema and the second by the
\* default table
C19_Witness ==
    /\ cPhase = "returned"
    /\ cItems[1]["modifiers"] = StrList(<<"soft top", "whip">>)
    /\ Len(cOrder.items[1].child_items) = 2
    /\ cOrder.items[1].child_items[1].modifier_group = "toppings"
    /\ cOrder.items[1].child_items[2].modifier_group = "custom"
    /\ cOrder.items[1].child_items[2].name = "Whip"
    /\ cOrder.items[1].pricing_breakdown.modifiers_total = 1000

\* C20: every line item of a composed order has unit_price >= 0, whatever the explicit
\* or inferred base price, the size adjustment and the modifier prices, and so the
\* order's subtotal and total are >= 0
C20_NonNegativeUnitPrice ==
    cPhase = "returned" =>
        /\ \A i \in 1..Len(cOrder.items) :
              /\ cOrder.items[i].unit_price >= 0
              /\ \A k \in 1..Len(cOrder.items[i].child_items) :
                    cOrder.items[i].child_items[k].unit_price >= 0
        /\ cOrder.subtotal >= 0
        /\ cOrder.total >= 0

\* an attribute of an item that is absent, null or empty
Missing(item, key) ==
    \/ key \notin DOMAIN item
    \/ item[key].t = "none"
    \/ (item[key].t = "str" /\ item[key].s = "")

\* the clarification set the rule gives an item
ClarificationOf(item) ==
    (IF Missing(item, "size") THEN {"size"} ELSE {})
    \cup (IF Missing(item, "temperature") THEN {"temperature"} ELSE {})

\* C21: every line item of a composed order, matched or not, carries a
\* needs_clarification collection holding "size" iff the item's size is missing,
\* "temperature" iff its temperature is missing, and nothing else
C21_ClarificationSet ==
    cPhase = "returned" =>
        \A i \in 1..Len(cItems) :
            /\ "needs_clarification" \in DOMAIN cOrder.items[i].metadata
            /\ {cOrder.items[i].metadata.needs_clarification[k] :
                  k \in 1..Len(cOrder.items[i].metadata.needs_clarification)}
               = ClarificationOf(cItems[i])

\* the elements of q in the order of their first occurrence
RECURSIVE FirstOccurrences(_)
FirstOccurrences(q) ==
    IF q = <<>> THEN <<>>
    ELSE LET front == FirstOccurrences(SubSeq(q, 1, Len(q) - 1))
         IN IF \E k \in 1..Len(front) : front[k] = q[Len(q)]
            THEN front
            ELSE Append(front, q[Len(q)])

\* the modifier list a candidate carries, empty when it carries none or no list
CandidateModifiers(item) ==
    IF IsList(ModsField(item)) THEN ModsField(item).l ELSE <<>>

\* C22: every item the Normalizer returns has a modifiers sequence without duplicate
\* entries: the distinct modifiers of its candidate in the order of their first
\* occurrence
C22_ModifiersDeduplicated ==
    nPhase = "returned" =>
        \A i \in 1..Len(nOut) :
            /\ \A j, k \in 1..Len(nOut[i]["modifiers"].l) :
                  nOut[i]["modifiers"].l[j] = nOut[i]["modifiers"].l[k] => j = k
            /\ \E c \in 1..Len(nCands) :
                  nOut[i]["modifiers"].l = FirstOccurrences(CandidateModifiers(nCands[c]))

\* C23: every item the Normalizer returns has a quantity that is a positive integer,
\* an absent, null or zero qty/quantity having become 1
C23_QuantityPositive ==
    nPhase = "returned" =>
        \A i \in 1..Len(nOut) :
            /\ nOut[i]["quantity"].t = "int"
            /\ nOut[i]["quantity"].n >= 1

\* the number of elements of q that occur verbatim in text
RECURSIVE FoundIn(_, _)
FoundIn(q, text) ==
    IF q = <<>> THEN 0
    ELSE (IF Contains(Head(q), text) THEN 1 ELSE 0) + FoundIn(Tail(q), text)

\* the confidence the four-factor rule gives an item, in thousandths: factors as
\* fractions, their product rounded to 2 decimals
RuleConfidence(item, text) ==
    LET tokens == Split(item["product_hint"].s)
        mods == [k \in 1..Len(item["modifiers"].l) |-> item["modifiers"].l[k].s]
        f1 == IF tokens = <<>> THEN [num |-> 3, den |-> 10]
              ELSE [num |-> 3 * Len(tokens) + 7 * FoundIn(tokens, text),
                    den |-> 10 * Len(tokens)]
        f2 == IF Missing(item, "size") /\ Missing(item, "temperature")
              THEN [num |-> 9, den |-> 10] ELSE [num |-> 1, den |-> 1]
        f3 == IF mods = <<>> THEN [num |-> 1, den |-> 1]
              ELSE [num |-> Len(mods) + FoundIn(mods, text), den |-> 2 * Len(mods)]
        f4 == IF Len(item["product_hint"].s) < 4
              THEN [num |-> 7, den |-> 10] ELSE [num |-> 1, den |-> 1]
    IN 10 * RoundHalfEven(100 * f1.num * f2.num * f3.num * f4.num,
                          f1.den * f2.den * f3.den * f4.den)

\* C24: the confidence of a returned item is the product, rounded to 2 decimals, of
\* 0.3 + 0.7 x (fraction of the phrase's tokens found in the text), 0.9 when size and
\* temperature are both absent, 0.5 + 0.5 x (fraction of the modifiers found in the
\* text), and 0.7 for a phrase under 4 characters; it lies within [0.09, 1] and is 1
\* when every token and modifier is in the text, an attribute is present and the
\* phrase has 4 characters or more
C24_ConfidenceScoring ==
    nPhase = "returned" =>
        \A i \in 1..Len(nOut) :
            /\ nOut[i]["confidence"].n = RuleConfidence(nOut[i], Lower(nText))
            /\ nOut[i]["confidence"].n >= 90
            /\ nOut[i]["confidence"].n <= 1000

\* some piece of text between the conjunctions "and" and "also" has 3 words or more
SegmentSurvives(text) ==
    LET words == Split(text)
    IN \E k \in 1..(Len(words) - 2) :
          \A j \in k..(k + 2) : words[j] \notin {"and", "also"}

\* C25: _segment_items never returns an empty list; when a piece of the text between
\* conjunctions has 3 words or more, every segment it returns has at least 3 words;
\* when none has, it returns one segment, the whole text it was given
C25_Segmentation ==
    sPhase = "returned" =>
        /\ sSegments # <<>>
        /\ IF SegmentSurvives(Lower(sText))
           THEN \A k \in 1..Len(sSegments) : Len(Split(sSegments[k])) >= 3
           ELSE sSegments = <<Lower(sText)>>

\* the lowercased names of the products of a catalog, in catalog order
CurrentNames(catalog) == [i \in 1..Len(catalog) |-> Lower(catalog[i]["name"].s)]

\* a cache file that can be read and holds as many names as the catalog has products
SameCount(cache, catalog) ==
    cache.exists /\ cache.readable /\ Len(cache.names) = Len(catalog)

\* what an initialization that found the cache file found must leave
InitializedFrom(found) ==
    IF products' = <<>>
    THEN product_names' = <<>> /\ embeddings'.none
    ELSE IF SameCount(found, products')
         THEN /\ product_names' = found.names
              /\ embeddings' = [none |-> FALSE, of |-> found.names]
              /\ cacheFile' = found
         ELSE /\ product_names' = CurrentNames(products')
              /\ embeddings' = [none |-> FALSE, of |-> CurrentNames(products')]
              /\ cacheFile' = [exists |-> TRUE, readable |-> TRUE,
                               names |-> CurrentNames(products')]

C27_NameProductAlignment ==
    /\ Len(product_names) = Len(products)
    /\ \A i \in 1..Len(products) : product_names[i] = Lower(products[i]["name"].s)
    /\ (mCall.op = "match" /\ mCall.query # "") =>
          \A i \in 1..Len(products) :
              Lower(products[i]["name"].s) = Lower(mCall.query) =>
                  /\ mCall.ret # <<>>
                  /\ mCall.ret[1].product = products[i]

\* the prices of the child lines of a line, in order
ChildPrices(line) == [k \in 1..Len(line.child_items) |-> line.child_items[k].unit_price]

\* C28: in every order a pipeline entry point produces, every matched line has base
\* price 5.50 whatever the catalog product costs, and two lines of the same size and
\* modifiers whose schemas price size and modifiers alike have the same unit_price
C28_PipelineBasePrice ==
    (pc = "done" /\ result.success) =>
        /\ Len(result.order.items) = Len(matched_items)
        /\ \A i \in 1..Len(result.order.items) :
              result.order.items[i].pricing_breakdown.base_price = 5500
        /\ \A i, j \in 1..Len(result.order.items) :
              (/\ matched_items[i]["size"] = matched_items[j]["size"]
               /\ matched_items[i]["modifiers"] = matched_items[j]["modifiers"]
               /\ result.order.items[i].pricing_breakdown.size_adjustment
                    = result.order.items[j].pricing_breakdown.size_adjustment
               /\ ChildPrices(result.order.items[i]) = ChildPrices(result.order.items[j]))
              => result.order.items[i].unit_price = result.order.items[j].unit_price

\* an order with two lines of the same size and modifiers for two catalog products of
\* different cost, priced alike
C28_Witness ==
    /\ pc = "done"
    /\ result.success
    /\ Len(result.order.items) = 2
    /\ matched_items[1]["size"] = matched_items[2]["size"]
    /\ matched_items[1]["modifiers"] = matched_items[2]["modifiers"]
    /\ matched_items[1]["product"]["cost"] # matched_items[2]["product"]["cost"]
    /\ matched_items[1]["product"]["cost"] # PFloat(5500)
    /\ ChildPrices(result.order.items[1]) = ChildPrices(result.order.items[2])
    /\ result.order.items[1].unit_price = result.order.items[2].unit_price

\* a request time HH:MM that names a time of day
ValidTime(time) ==
    /\ Len(time) = 5
    /\ SubSeq(time, 3, 3) = ":"
    /\ \A k \in {1, 2, 4, 5} : SubSeq(time, k, k) \in {"0", "1", "2", "3", "4", "5", "6", "7", "8", "9"}
    /\ SubSeq(time, 1, 2) \in {"00", "01", "02", "03", "04", "05", "06", "07", "08", "09",
                               "10", "11", "12", "13", "14", "15", "16", "17", "18", "19",
                               "20", "21", "22", "23"}
    /\ SubSeq(time, 4, 4) \in {"0", "1", "2", "3", "4", "5"}

\* C29: whatever the interleaving of a broadcast with clients connecting and their
\* handlers finishing, each websocket is removed from the list at most once, the
\* broadcast never fails removing a client that is no longer in the list, set_time
\* answers success for a valid time, and a client whose handler finished is not in
\* the list
C29_BroadcastUnderDisconnects ==
    /\ \A c \in NotificationClients : wsRemoved[c] <= 1
    /\ ValidTime(tTime) => tResponse.error = "none"
    /\ (tPc = "done" /\ ValidTime(tTime)) => tResponse.status = "success"
    /\ \A c \in NotificationClients :
          wsState[c] = "finished" => ~InList(c, active_notification_websockets)


\* the final segments among the events that arrived, in the order of arrival
RECURSIVE FinalSegments(_)
FinalSegments(events) ==
    IF events = <<>> THEN <<>>
    ELSE (IF Head(events).is_partial THEN <<>> ELSE <<Head(events).transcript>>)
         \o FinalSegments(Tail(events))

\* what holds of a session in every state: process_text at most once, with the final
\* segments joined by blanks, after the three tasks and the end signal; end_stream at
\* most once
LiveSessionOrdered ==
    /\ Len(lTexts) <= 1
    /\ lEnded <= 1
    /\ lTexts # <<>> =>
        /\ lTexts[1] = JoinWords(FinalSegments(lArrived))
        /\ awsEvents = <<>>
        /\ lReader = "done" /\ lWriter = "done" /\ lHandler = "done"
        /\ lAggregator = "done"
        /\ transcript_queue = <<>>

\* C30: the text handed to process_text is the final segments of the session joined
\* by single blanks in the order they arrived, no partial segment in it and no final
\* one lost or doubled; process_text is called at most once, after the client reader,
\* the AWS writer and the transcript handler have finished and the end signal was
\* queued; and once the client has disconnected, end_stream is called, exactly once
C30_LiveSessionOrdering ==
    /\ []LiveSessionOrdered
    /\ (lClient = "disconnected") ~> (lEnded = 1)

\* process_text was called with two final segments after the client's audio was sent
C30_Witness ==
    /\ lTexts = <<"large mocha with boba">>
    /\ lEnded = 1
    /\ lSent = MaxAudioChunks

=============================================================================
